---- MODULE Spec2Model ----
(***************************************************************************)
(* huanqiu-image-generator: the MCP JSON-RPC dispatchers (unified server   *)
(* and stand-alone cover server), the cover tool's default merging, the    *)
(* Xiaohongshu client's post validation and its retry loop, the daily      *)
(* scheduler, the start-up of the binaries and the orchestrator's run.     *)
(***************************************************************************)
EXTENDS Integers, Sequences, FiniteSets, TLC

VARIABLES
    server,     \* the binary that serves /mcp: "unified" or "cover"
    httpReq,    \* the HTTP request being answered: [method, body]
    resp,       \* the HTTP response written for httpReq
    calls,      \* the handlers invoked while serving httpReq, in call order
    toolArgs,   \* the argument map a tool handler worked on, after merging
    served,     \* the JSON-RPC methods dispatched by earlier requests
    downstream, \* what the browser or platform did for httpReq: "ok" or "fail"
    postReq,    \* the PostRequest handed to the Xiaohongshu client
    validateErr,\* what ValidatePostRequest returned for postReq
    pc,         \* PostWithRetry: position in the loop
    maxRetries, \* PostWithRetry: the maxRetries argument
    i,          \* PostWithRetry: the loop counter
    lastErr,    \* PostWithRetry: the lastErr local
    attempts,   \* PostWithRetry: every PostContent outcome so far, in order
    sleeps,     \* PostWithRetry: every time.Sleep made so far, in seconds
    ret,        \* PostWithRetry: the returned (response, error) pair
    clock,      \* Beijing wall clock, in seconds since 00:00 of day 0
    spc,        \* Scheduler.Start: position in the loop
    nextRun,    \* Scheduler.Start: the nextRun local
    computedAt, \* the instant getNext8PMBeijing read when it computed nextRun
    cancelled,  \* whether s.cancel() was called (s.ctx is done)
    lastCheck,  \* the last evaluation of isTimeToRun in the loop
    runLog,     \* every orch.Run the loop started: [at, target, stopped]
    lastRunErr, \* what the last orch.Run of the loop returned
    startRet,   \* what Start returned, "" while it has not
    boot,       \* a starting process: binary, flags, config.json, environment
    bpc,        \* main: position
    cfg,        \* main: what config.Load returned
    wpc,        \* Orchestrator.Run: position
    wfCalls,    \* Orchestrator.Run: the collaborators called, in call order
    wfResult,   \* Orchestrator.Run: the WorkflowResult fields that are set
    wfLlmReq,   \* Orchestrator.Run: the ContentRequest handed to the LLM
    wfWorld,    \* what really happened downstream: cover file, post
    runRet,     \* Orchestrator.Run: the returned error, "" before
    apiMode,    \* the unified server's mode: "api" or "scheduler"
    apiOrch,    \* whether main built an orchestrator (orch != nil)
    apiReq,     \* the POST /api/generate-and-publish requests, one per client
    coverCall,  \* the generate_xiaohongshu_cover calls in progress
    files       \* the file system: what each output path holds

dispatchVars == <<server, httpReq, resp, calls, toolArgs, served, downstream>>
validateVars == <<postReq, validateErr>>
retryVars == <<pc, maxRetries, i, lastErr, attempts, sleeps, ret>>
schedVars ==
    <<clock, spc, nextRun, computedAt, cancelled, lastCheck, runLog, lastRunErr,
      startRet>>
bootVars == <<boot, bpc, cfg>>
wfVars == <<wpc, wfCalls, wfResult, wfLlmReq, wfWorld, runRet>>
apiVars == <<apiMode, apiOrch, apiReq>>
coverVars == <<coverCall, files>>
vars ==
    <<dispatchVars, validateVars, retryVars, schedVars, bootVars, wfVars, apiVars,
      coverVars>>

-----------------------------------------------------------------------------
(* JSON values as encoding/json decodes them into interface{}.              *)

JV(t, v) == [t |-> t, v |-> v]

JNil == JV("nil", "null")

CodeParseError == -32700
CodeInvalidParams == -32602
CodeMethodNotFound == -32601
StatusOK == 200
StatusMethodNotAllowed == 405
StatusInternalServerError == 500

Servers == {"unified", "cover"}

ToolNames ==
    <<"generate_xiaohongshu_cover", "check_login_status", "publish_content",
      "list_feeds", "search_feeds">>

-----------------------------------------------------------------------------
(* The inputs: HTTP requests to /mcp.                                       *)

Methods ==
    {"initialize", "tools/list", "tools/call", "notifications/initialized",
     "notifications/cancelled", "notifications/progress", "resources/list", ""}

Ids == {JNil, JV("float64", "1")}

\* The keys a caller may put in "arguments" and the values it may give each:
\* selector and text are keys of the default table, headless is not.
ArgChoices ==
    [selector |-> {JV("string", ""), JV("string", "#custom"), JV("float64", "7")},
     text |-> {JV("string", ""), JV("string", "custom")},
     headless |-> {JV("bool", "true")}]

ArgMaps ==
    UNION {{m \in [S -> UNION {ArgChoices[k] : k \in S}] :
                \A k \in S : m[k] \in ArgChoices[k]} :
           S \in SUBSET DOMAIN ArgChoices}

\* params.name: absent, a non-string, one of the tools, or an unknown tool.
NameVals ==
    {JV("absent", ""), JV("float64", "5"), JV("string", "no_such_tool")}
        \cup {JV("string", ToolNames[n]) : n \in DOMAIN ToolNames}

\* What a caller of publish_content may give: a title, a content, and an
\* images array that is empty or names one file; each may be left out.
PublishChoices ==
    [title |-> {JV("string", "a title")},
     content |-> {JV("string", "a content")},
     images |-> {JV("array", "[]"), JV("array", "[\"/tmp/cover.png\"]")}]

PublishArgMaps ==
    UNION {{m \in [S -> UNION {PublishChoices[k] : k \in S}] :
                \A k \in S : m[k] \in PublishChoices[k]} :
           S \in SUBSET DOMAIN PublishChoices}

\* The argument objects sent along with a name: every ArgMaps for the cover
\* tool, whose handler reads them; the empty object and one stray key for the
\* rest, a keyword for search_feeds and every PublishArgMaps for
\* publish_content.
ArgMapsFor(n) ==
    IF n = JV("string", "generate_xiaohongshu_cover")
    THEN ArgMaps
    ELSE {m \in ArgMaps : DOMAIN m \subseteq {"headless"}}
            \cup (IF n = JV("string", "search_feeds")
                  THEN {[keyword |-> JV("string", "ride")]}
                  ELSE {})
            \cup (IF n = JV("string", "publish_content")
                  THEN PublishArgMaps
                  ELSE {})

\* params.arguments: absent, a non-object, or an object.
ArgumentsVals(n) ==
    {[t |-> "absent"], [t |-> "string"]}
        \cup {[t |-> "object", m |-> m] : m \in ArgMapsFor(n)}

\* params of a tools/call.
CallParams ==
    {[t |-> "nil"], [t |-> "array"]}
        \cup UNION {{[t |-> "object", name |-> n, arguments |-> a] :
                        a \in ArgumentsVals(n)} : n \in NameVals}

\* params of the other methods: absent, an array, or an object.
OtherParams ==
    {[t |-> "nil"], [t |-> "array"],
     [t |-> "object", name |-> JV("absent", ""), arguments |-> [t |-> "absent"]],
     [t |-> "object", name |-> JV("string", "publish_content"),
      arguments |-> [t |-> "object", m |-> <<>>]]}

ZeroBody(kind) ==
    [kind |-> kind, method |-> "", params |-> [t |-> "nil"], id |-> JNil]

\* A body is no JSON at all ("empty", "syntax"), JSON of the wrong shape
\* ("array", and "badmethod": an object whose method is a number), the JSON
\* null, or an object with a string method.
Bodies ==
    {ZeroBody(k) : k \in {"empty", "syntax", "array", "null"}}
        \cup {[kind |-> "badmethod", method |-> "", params |-> [t |-> "nil"], id |-> d] :
                d \in Ids}
        \cup {[kind |-> "object", method |-> m, params |-> p, id |-> d] :
                m \in Methods \ {"tools/call"}, p \in OtherParams, d \in Ids}
        \cup {[kind |-> "object", method |-> "tools/call", params |-> p, id |-> d] :
                p \in CallParams, d \in Ids}

HTTPRequests ==
    {[method |-> "POST", body |-> b] : b \in Bodies}
        \cup {[method |-> "GET", body |-> ZeroBody("empty")]}

\* What the browser or the platform automation does when a tool runs.
DownOutcomes == {"ok", "fail"}

-----------------------------------------------------------------------------
(* Replies.                                                                 *)

NoBody == [kind |-> "none"]

TextBody(text) == [kind |-> "text", text |-> text]

MutSendErrorFixedData(id, code, message, data) ==
    [kind |-> "error", code |-> code, message |-> message,
     data |-> message, id |-> id]

sendJSONRPCError(id, code, message, data) ==
    [kind |-> "error", code |-> code, message |-> message,
     data |-> data, id |-> id]

sendJSONRPCResponse(id, result) ==
    [kind |-> "result", result |-> result, id |-> id]

Reply(status, body) == [status |-> status, body |-> body]

\* What one handler run leaves behind: the response, the handlers it went
\* through and the argument map a tool handler ended with.
Outcome(r, c, a) == [resp |-> r, calls |-> c, toolArgs |-> a]

NoArgs == <<>>

Ok(body, c, a) == Outcome(Reply(StatusOK, body), c, a)

\* A panic in the handler goroutine is caught by gin.Recovery(), which
\* answers 500 with no body.
Panic(c, a) == Outcome(Reply(StatusInternalServerError, NoBody), c, a)

ToolResult(text, isError) ==
    [content |-> <<[type |-> "text", text |-> text]>>, isError |-> isError]

-----------------------------------------------------------------------------
(* generate_xiaohongshu_cover: the default table and its merging.           *)

defaults ==
    [baseUrl |-> JV("string", "http://localhost:3000"),
     selector |-> JV("string", "#exportable"),
     image |-> JV("string", "/assets/6.jpg"),
     text |-> JV("string", "defaultText"),
     output_path |-> JV("string", "/tmp/xiaohongshu_cover.png"),
     fontFamily |-> JV("string", "Arial"),
     fontSize |-> JV("int", "48"),
     fontWeight |-> JV("string", "bold"),
     color |-> JV("string", "#0e0d0c"),
     backgroundColor |-> JV("string", "#f4f750"),
     textShadow |-> JV("string", "2px 2px 4px #000000"),
     border |-> JV("string", "1px solid #000000"),
     borderRadius |-> JV("int", "32"),
     borderWidth |-> JV("int", "3"),
     borderStyle |-> JV("string", "dashed"),
     padding |-> JV("int", "20"),
     scaleX |-> JV("float64", "1"),
     scaleY |-> JV("float64", "1"),
     skewX |-> JV("float64", "0"),
     skewY |-> JV("float64", "0"),
     opacity |-> JV("float64", "0.8"),
     overlayColor |-> JV("string", "#443c3c"),
     x |-> JV("int", "50"),
     y |-> JV("int", "50")]

\* A merge that takes an empty string for a missing value.
MutMergeEmptyIsAbsent(args) ==
    [k \in DOMAIN args \cup DOMAIN defaults |->
        IF k \in DOMAIN args /\ ~(k \in DOMAIN defaults /\ args[k] = JV("string", ""))
        THEN args[k]
        ELSE defaults[k]]

\* for key, defaultValue := range defaults { if _, exists := args[key]; !exists
\* { args[key] = defaultValue } }
MergeDefaults(args) ==
    [k \in DOMAIN args \cup DOMAIN defaults |->
        IF k \in DOMAIN args THEN args[k] ELSE defaults[k]]

\* v, _ := args[k].(string): the string, or "" when absent or of another type.
StrArg(args, k) ==
    IF k \in DOMAIN args /\ args[k].t = "string" THEN args[k].v ELSE ""

\* BrowserService.TakeScreenshot: the request's defaults, then the browser run.
TakeScreenshot(selector, outputPath, down) ==
    LET path == IF outputPath = "" THEN "screenshot_<unix>.jpg" ELSE outputPath
    IN  IF down = "ok"
        THEN [err |-> "", success |-> TRUE, outputPath |-> path]
        ELSE [err |-> "chromedp: run failed", success |-> FALSE, outputPath |-> ""]

\* What a tool handler returns: a panic, or a ToolResult; with the argument
\* map it ended with and the downstream calls it made.
HandlerRet(panicked, result, args, made) ==
    [panicked |-> panicked, result |-> result, args |-> args, made |-> made]

NoResult == ToolResult("", FALSE)

handleGenerateXiaohongshuCover(srv, args, down) ==
    LET merged == MergeDefaults(args)
        outputPath == StrArg(merged, "output_path")
    IN  IF merged["selector"].t # "string"
        THEN \* Selector: args["selector"].(string)
             HandlerRet(TRUE, NoResult, merged, <<>>)
        ELSE LET shot == TakeScreenshot(merged["selector"].v, outputPath, down)
                 made == <<"TakeScreenshot">>
             IN  IF shot.err # ""
                 THEN HandlerRet(FALSE,
                        ToolResult((IF srv = "unified"
                                    THEN "Failed to generate cover: "
                                    ELSE "Xiaohongshu cover generation failed: ")
                                   \o shot.err, TRUE),
                        merged, made)
                 ELSE IF srv = "unified" /\ ~shot.success
                 THEN HandlerRet(FALSE,
                        ToolResult("Screenshot failed: " \o shot.err, TRUE),
                        merged, made)
                 ELSE HandlerRet(FALSE,
                        ToolResult("Xiaohongshu cover generated successfully: "
                                   \o shot.outputPath, FALSE),
                        merged, made)

\* A handler that reports a failed check as a successful one.
MutCheckLoginErrorAsSuccess(args, down) ==
    HandlerRet(FALSE, ToolResult("login status checked: {IsLoggedIn Username}", FALSE),
               args, <<"CheckLoginStatus">>)

handleCheckLoginStatus(args, down) ==
    IF down # "ok"
    THEN HandlerRet(FALSE, ToolResult("check login status failed: browser error", TRUE),
                    args, <<"CheckLoginStatus">>)
    ELSE HandlerRet(FALSE, ToolResult("login status checked: {IsLoggedIn Username}", FALSE),
                    args, <<"CheckLoginStatus">>)

handlePublishContent(args, down) ==
    IF down # "ok"
    THEN HandlerRet(FALSE, ToolResult("publish failed: browser error", TRUE),
                    args, <<"PublishContent">>)
    ELSE HandlerRet(FALSE, ToolResult("content published: " \o StrArg(args, "title"), FALSE),
                    args, <<"PublishContent">>)

handleListFeeds(args, down) ==
    IF down # "ok"
    THEN HandlerRet(FALSE, ToolResult("list feeds failed: browser error", TRUE),
                    args, <<"ListFeeds">>)
    ELSE HandlerRet(FALSE, ToolResult("{feeds, count}", FALSE), args, <<"ListFeeds">>)

handleSearchFeeds(args, down) ==
    IF StrArg(args, "keyword") = ""
    THEN HandlerRet(FALSE, ToolResult("search keyword must not be empty", TRUE), args, <<>>)
    ELSE IF down # "ok"
    THEN HandlerRet(FALSE, ToolResult("search failed: browser error", TRUE),
                    args, <<"SearchFeeds">>)
    ELSE HandlerRet(FALSE, ToolResult("{keyword, results, total}", FALSE),
                    args, <<"SearchFeeds">>)

-----------------------------------------------------------------------------
(* The dispatcher.                                                          *)

\* The zero JSONRPCRequest.
ZeroRequest == [method |-> "", params |-> [t |-> "nil"], id |-> JNil]

\* json.NewDecoder(r.Body).Decode(&req): the error text ("" for nil) and the
\* request as far as it was filled.  A syntax error is found before any field
\* is set; a type mismatch in one field is remembered while the other fields
\* are still decoded.
Decode(body) ==
    CASE body.kind = "empty" -> [err |-> "EOF", req |-> ZeroRequest]
      [] body.kind = "syntax" ->
            [err |-> "invalid character 'x' looking for beginning of value",
             req |-> ZeroRequest]
      [] body.kind = "array" ->
            [err |-> "json: cannot unmarshal array into Go value of type main.JSONRPCRequest",
             req |-> ZeroRequest]
      [] body.kind = "badmethod" ->
            [err |-> "json: cannot unmarshal number into Go struct field JSONRPCRequest.method of type string",
             req |-> [method |-> "", params |-> body.params, id |-> body.id]]
      [] body.kind = "null" -> [err |-> "", req |-> ZeroRequest]
      [] OTHER ->
            [err |-> "",
             req |-> [method |-> body.method, params |-> body.params, id |-> body.id]]

handleInitialize(srv, req) ==
    Ok(sendJSONRPCResponse(req.id,
          [protocolVersion |-> "2024-11-05",
           capabilities |-> {"tools"},
           serverInfo |-> [name |-> IF srv = "unified"
                                    THEN "xiaohongshu-unified-mcp"
                                    ELSE "xiaohongshu-cover-mcp",
                           version |-> "v1.0.0"]]),
       <<"handleInitialize">>, NoArgs)

Tool(name, properties, required) ==
    [name |-> name, properties |-> properties, required |-> required]

\* The unified server's catalog.
UnifiedTools ==
    <<Tool("generate_xiaohongshu_cover",
           {"baseUrl", "selector", "image", "text", "output_path", "fontFamily",
            "fontSize", "color", "backgroundColor"}, {}),
      Tool("check_login_status", {}, {}),
      Tool("publish_content", {"title", "content", "images"},
           {"title", "content", "images"}),
      Tool("list_feeds", {}, {}),
      Tool("search_feeds", {"keyword", "limit"}, {"keyword"})>>

\* The stand-alone cover server's catalog.
CoverTools ==
    <<Tool("generate_xiaohongshu_cover", DOMAIN defaults, {})>>

\* A tools/list that needs an earlier initialize and filters by params.name.
MutToolsListStateful(req) ==
    LET wanted(t) == req.params.t # "object" \/ req.params.name.t # "string"
                        \/ req.params.name.v = t.name
    IN  Ok(sendJSONRPCResponse(req.id,
              [tools |-> IF "initialize" \in served
                         THEN SelectSeq(UnifiedTools, wanted)
                         ELSE <<>>]),
           <<"handleToolsList">>, NoArgs)

UnifiedMCPServer_handleToolsList(req) ==
    Ok(sendJSONRPCResponse(req.id, [tools |-> UnifiedTools]),
       <<"handleToolsList">>, NoArgs)

MCPServer_handleToolsList(req) ==
    Ok(sendJSONRPCResponse(req.id, [tools |-> CoverTools]),
       <<"handleToolsList">>, NoArgs)

\* The reply to a tool handler's return value.
ToolReply(req, h, name) ==
    LET made == <<"handleToolsCall", name>> \o h.made
    IN  IF h.panicked
        THEN Panic(made, h.args)
        ELSE Ok(sendJSONRPCResponse(req.id, h.result), made, h.args)

\* A dispatcher whose default case falls through to the last handler.
MutUnknownToolFallsThrough(req, down) ==
    IF req.params.t # "object"
    THEN Ok(sendJSONRPCError(req.id, CodeInvalidParams, "Invalid params",
                             "Params must be an object"),
            <<"handleToolsCall">>, NoArgs)
    ELSE IF req.params.name.t # "string" \/ req.params.arguments.t # "object"
    THEN Panic(<<"handleToolsCall">>, NoArgs)
    ELSE LET name == req.params.name.v
             args == req.params.arguments.m
         IN  CASE name = "generate_xiaohongshu_cover" ->
                    ToolReply(req, handleGenerateXiaohongshuCover("unified", args, down), name)
               [] name = "check_login_status" ->
                    ToolReply(req, handleCheckLoginStatus(args, down), name)
               [] name = "publish_content" ->
                    ToolReply(req, handlePublishContent(args, down), name)
               [] name = "list_feeds" ->
                    ToolReply(req, handleListFeeds(args, down), name)
               [] OTHER ->
                    ToolReply(req, handleSearchFeeds(args, down), name)

UnifiedMCPServer_handleToolsCall(req, down) ==
    IF req.params.t # "object"
    THEN Ok(sendJSONRPCError(req.id, CodeInvalidParams, "Invalid params",
                             "Params must be an object"),
            <<"handleToolsCall">>, NoArgs)
    ELSE IF req.params.name.t # "string"
    THEN \* Name: params["name"].(string)
         Panic(<<"handleToolsCall">>, NoArgs)
    ELSE IF req.params.arguments.t # "object"
    THEN \* Arguments: params["arguments"].(map[string]interface{})
         Panic(<<"handleToolsCall">>, NoArgs)
    ELSE LET name == req.params.name.v
             args == req.params.arguments.m
         IN  CASE name = "generate_xiaohongshu_cover" ->
                    ToolReply(req, handleGenerateXiaohongshuCover("unified", args, down), name)
               [] name = "check_login_status" ->
                    ToolReply(req, handleCheckLoginStatus(args, down), name)
               [] name = "publish_content" ->
                    ToolReply(req, handlePublishContent(args, down), name)
               [] name = "list_feeds" ->
                    ToolReply(req, handleListFeeds(args, down), name)
               [] name = "search_feeds" ->
                    ToolReply(req, handleSearchFeeds(args, down), name)
               [] OTHER ->
                    Ok(sendJSONRPCError(req.id, CodeMethodNotFound, "Method not found",
                                        "Unknown tool: " \o name),
                       <<"handleToolsCall">>, NoArgs)

MCPServer_handleToolsCall(req, down) ==
    IF req.params.t # "object"
    THEN Ok(sendJSONRPCError(req.id, CodeInvalidParams, "Invalid params",
                             "Expected object"),
            <<"handleToolsCall">>, NoArgs)
    ELSE IF req.params.name.t # "string"
    THEN Ok(sendJSONRPCError(req.id, CodeInvalidParams, "Invalid params",
                             "Missing tool name"),
            <<"handleToolsCall">>, NoArgs)
    ELSE LET name == req.params.name.v
             \* args, ok := params["arguments"].(map[string]interface{});
             \* if !ok { args = make(map[string]interface{}) }
             args == IF req.params.arguments.t = "object"
                     THEN req.params.arguments.m
                     ELSE <<>>
         IN  IF name = "generate_xiaohongshu_cover"
             THEN ToolReply(req, handleGenerateXiaohongshuCover("cover", args, down), name)
             ELSE Ok(sendJSONRPCError(req.id, CodeMethodNotFound, "Method not found",
                                      "Unknown tool: " \o name),
                     <<"handleToolsCall">>, NoArgs)

\* if err := json.NewDecoder(r.Body).Decode(&req); err != nil { ...; return }
parseFailure(req, err) ==
    Ok(sendJSONRPCError(req.id, CodeParseError, "Parse error", err), <<>>, NoArgs)

\* A notification case that acknowledges with an empty result.
MutNotificationAcked(req) ==
    Ok(sendJSONRPCResponse(req.id, [tools |-> <<>>]), <<>>, NoArgs)

\* case "notifications/initialized", "notifications/cancelled": log and return;
\* nothing is written, so net/http sends 200 with an empty body.
notification(req) == Ok(NoBody, <<>>, NoArgs)

\* A default case that blames the params instead of the method.
MutMethodNotFoundAsInvalidParams(req) ==
    Ok(sendJSONRPCError(req.id, CodeInvalidParams, "Invalid params",
                        "Unknown method: " \o req.method),
       <<>>, NoArgs)

\* default: of the method switch.
methodNotFound(req) ==
    Ok(sendJSONRPCError(req.id, CodeMethodNotFound, "Method not found",
                        "Unknown method: " \o req.method),
       <<>>, NoArgs)

\* The handler of /mcp, for either server.
createMCPHandler(srv, h, down) ==
    IF h.method # "POST"
    THEN Outcome(Reply(StatusMethodNotAllowed, TextBody("Method not allowed")),
                 <<>>, NoArgs)
    ELSE LET dec == Decode(h.body)
             req == dec.req
         IN  IF dec.err # ""
             THEN parseFailure(req, dec.err)
             ELSE CASE req.method = "initialize" -> handleInitialize(srv, req)
                    [] req.method = "tools/list" ->
                         IF srv = "unified"
                         THEN UnifiedMCPServer_handleToolsList(req)
                         ELSE MCPServer_handleToolsList(req)
                    [] req.method = "tools/call" ->
                         IF srv = "unified"
                         THEN UnifiedMCPServer_handleToolsCall(req, down)
                         ELSE MCPServer_handleToolsCall(req, down)
                    [] req.method \in {"notifications/initialized",
                                       "notifications/cancelled"} ->
                         notification(req)
                    [] OTHER -> methodNotFound(req)

\* The methods among initialize and tools/call that a request gets dispatched to.
Dispatched(h) ==
    IF h.method = "POST" /\ Decode(h.body).err = ""
    THEN {Decode(h.body).req.method} \cap {"initialize", "tools/call"}
    ELSE {}

-----------------------------------------------------------------------------
(* The dispatcher as a state machine: one request after the other.          *)

NoRequest == [method |-> "NONE", body |-> ZeroBody("empty")]

InitDispatchIdle ==
    /\ httpReq = NoRequest
    /\ resp = [status |-> 0, body |-> NoBody]
    /\ calls = <<>>
    /\ toolArgs = NoArgs
    /\ served = {}
    /\ downstream = "ok"

ServeHTTP ==
    \E h \in HTTPRequests, down \in DownOutcomes :
        LET out == createMCPHandler(server, h, down)
        IN  /\ httpReq' = h
            /\ resp' = out.resp
            /\ calls' = out.calls
            /\ toolArgs' = out.toolArgs
            /\ served' = served \cup Dispatched(h)
            /\ downstream' = down
            /\ UNCHANGED <<server, validateVars, retryVars, schedVars, bootVars, wfVars,
                   apiVars, coverVars>>

-----------------------------------------------------------------------------
(* Client.ValidatePostRequest.  A Go string is known here by its number of  *)
(* characters and its number of UTF-8 bytes; len(s) is the number of bytes. *)

MaxTitleLen == 100
MaxContentLen == 1000

\* Input bounds: bytes per character, images per post, and how far around a
\* cap the lengths are taken.
MaxCharBytes == 3
MaxImages == 2
Slack == 1

Str(c, w) == [chars |-> c, bytes |-> c * w]

len(s) == s.bytes

\* The lengths, in characters, at which a string of 1..MaxCharBytes bytes per
\* character comes within Slack characters of `cap` bytes; and 0 and 1.
LensNear(cap) ==
    {0, 1} \cup
    {n \in 1..(cap + Slack) :
        \E w \in 1..MaxCharBytes :
            /\ n >= (cap \div w) - Slack
            /\ n <= (cap \div w) + Slack}

Strs(cap) == {Str(c, w) : c \in LensNear(cap), w \in 1..MaxCharBytes}

PostRequests ==
    {[title |-> t, content |-> c, images |-> n] :
        t \in Strs(MaxTitleLen), c \in Strs(MaxContentLen), n \in 0..MaxImages}

\* The returned error's text, "nil" for nil.
ValidatePostRequest(req) ==
    IF len(req.title) = 0 THEN "title is required"
    ELSE IF len(req.content) = 0 THEN "content is required"
    ELSE IF req.images = 0 THEN "at least one image is required"
    ELSE IF len(req.title) > MaxTitleLen THEN "title too long (max 100 characters)"
    ELSE IF len(req.content) > MaxContentLen
         THEN "content too long (max 1000 characters)"
    ELSE "nil"

NoPost == [title |-> Str(0, 1), content |-> Str(0, 1), images |-> 0]

InitValidateIdle ==
    /\ postReq = NoPost
    /\ validateErr = "unchecked"

Validate ==
    /\ validateErr = "unchecked"
    /\ validateErr' = ValidatePostRequest(postReq)
    /\ UNCHANGED <<postReq, dispatchVars, retryVars, schedVars, bootVars, wfVars,
                   apiVars, coverVars>>

-----------------------------------------------------------------------------
(* Client.PostContent and Client.PostWithRetry.                             *)

RetryUnitSeconds == 10
OrchestratorRetries == 3

\* Input bound: the largest maxRetries tried.
MaxRetriesArg == 4

\* What the MCP server at cfg.Xiaohongshu.ServerURL does with one
\* publish_content call: no connection, a non-200 status, a body that is no
\* JSON-RPC response, a JSON-RPC error, a result with a non-empty "error"
\* field, a ToolResult with isError, a ToolResult without.
ServerAnswers ==
    {"no_connection", "status_500", "bad_json", "rpc_error", "result_error",
     "tool_error", "tool_ok"}

\* callMCP: the error text, "" for nil.
callMCP(answer) ==
    CASE answer = "no_connection" -> "failed to call Xiaohongshu MCP server"
      [] answer = "status_500" -> "Xiaohongshu MCP server returned status 500"
      [] answer = "bad_json" -> "failed to decode MCP response"
      [] answer = "rpc_error" -> "MCP error"
      [] OTHER -> ""

\* PostContent: (response, error).  The result is re-decoded as a
\* PostResponse, whose Error is the result's "error" field; a ToolResult has
\* no such field.
PostContent(answer, now) ==
    IF callMCP(answer) # ""
    THEN [ok |-> FALSE, err |-> callMCP(answer), resp |-> [answer |-> "", postedAt |-> 0]]
    ELSE IF answer = "result_error"
    THEN [ok |-> FALSE, err |-> "posting error", resp |-> [answer |-> "", postedAt |-> 0]]
    ELSE [ok |-> TRUE, err |-> "", resp |-> [answer |-> answer, postedAt |-> now]]

NoResponse == [answer |-> "", postedAt |-> 0]

\* A loop that runs once more than asked.
MutLoopOneMore(k, n) == k <= n

\* for i := 0; i < maxRetries; i++
LoopCondition(k, n) == k < n

\* if i < maxRetries-1
SleepCondition(k, n) == k < n - 1

\* A backoff that starts at zero.
MutSleepFromZero(k) == k * RetryUnitSeconds

\* time.Duration(i+1) * 10 * time.Second, in seconds
SleepSeconds(k) == (k + 1) * RetryUnitSeconds

Sum(seq) ==
    LET RECURSIVE S(_)
        S(k) == IF k = 0 THEN 0 ELSE seq[k] + S(k - 1)
    IN  S(Len(seq))

InitRetryIdle ==
    /\ pc = "idle"
    /\ maxRetries = 0
    /\ i = 0
    /\ lastErr = ""
    /\ attempts = <<>>
    /\ sleeps = <<>>
    /\ ret = [resp |-> NoResponse, err |-> "", retries |-> 0, wraps |-> ""]

\* PostWithRetry(req, n) is called.
CallPostWithRetry ==
    /\ pc = "idle"
    /\ \E n \in 0..MaxRetriesArg : maxRetries' = n
    /\ pc' = "loop"
    /\ UNCHANGED <<i, lastErr, attempts, sleeps, ret, dispatchVars, validateVars, schedVars,
                   bootVars, wfVars,
                   apiVars, coverVars>>

\* One pass of the loop body up to the sleep: PostContent and its outcome.
Attempt ==
    /\ pc = "loop"
    /\ LoopCondition(i, maxRetries)
    /\ \E answer \in ServerAnswers :
        LET r == PostContent(answer, Sum(sleeps))
        IN  /\ attempts' = Append(attempts, [i |-> i, ok |-> r.ok, err |-> r.err, resp |-> r.resp])
            /\ IF r.ok
               THEN /\ ret' = [resp |-> r.resp, err |-> "", retries |-> 0, wraps |-> ""]
                    /\ pc' = "done"
                    /\ UNCHANGED <<i, lastErr>>
               ELSE /\ lastErr' = r.err
                    /\ IF SleepCondition(i, maxRetries)
                       THEN pc' = "sleep" /\ i' = i
                       ELSE pc' = "loop" /\ i' = i + 1
                    /\ UNCHANGED ret
    /\ UNCHANGED <<maxRetries, sleeps, dispatchVars, validateVars, schedVars,
                   bootVars, wfVars,
                   apiVars, coverVars>>

\* time.Sleep, then i++.
Sleep ==
    /\ pc = "sleep"
    /\ sleeps' = Append(sleeps, SleepSeconds(i))
    /\ i' = i + 1
    /\ pc' = "loop"
    /\ UNCHANGED <<maxRetries, lastErr, attempts, ret, dispatchVars, validateVars, schedVars,
                   bootVars, wfVars,
                   apiVars, coverVars>>

\* The loop is left: fmt.Errorf("failed to post content after %d retries: %w",
\* maxRetries, lastErr); `retries` is the %d and `wraps` the %w.
GiveUp ==
    /\ pc = "loop"
    /\ ~LoopCondition(i, maxRetries)
    /\ ret' = [resp |-> NoResponse, err |-> "failed to post content after %d retries: %w",
               retries |-> maxRetries, wraps |-> lastErr]
    /\ pc' = "done"
    /\ UNCHANGED <<maxRetries, i, lastErr, attempts, sleeps, dispatchVars, validateVars, schedVars,
                   bootVars, wfVars,
                   apiVars, coverVars>>

-----------------------------------------------------------------------------
(* Scheduler: the daily 20:00 Beijing loop.  Instants are whole seconds     *)
(* since 00:00 Beijing time of day 0; Asia/Shanghai has no clock changes,   *)
(* so every Beijing day is 24 hours long.                                   *)

CheckPeriodSeconds == 30
WindowSeconds == 60
HourSeconds == 3600
DaySeconds == 24 * HourSeconds
TargetHour == 20

\* Input bound: the number of days after day 0 the clock is followed for.
MaxDays == 1

\* time.Date(year, month, day, hour, 0, 0, 0, beijingTZ)
Date(day, hour) == day * DaySeconds + hour * HourSeconds

\* The Beijing calendar day (now.Year(), now.Month(), now.Day()) of an instant.
DayOf(t) == t \div DaySeconds

\* The clock is followed until a few checks after the last target.
Horizon == Date(MaxDays, TargetHour) + 5 * WindowSeconds

\* A schedule that never moves on to tomorrow.
MutNext8PMNeverTomorrow(now) == Date(DayOf(now), TargetHour)

\* target := time.Date(..., 20, 0, 0, 0, beijingTZ);
\* if now.After(target) { target = target.Add(24 * time.Hour) }
getNext8PMBeijing(now) ==
    LET target == Date(DayOf(now), TargetHour)
    IN  IF now > target THEN target + DaySeconds ELSE target

\* now.After(target) && now.Before(target.Add(1*time.Minute))
isTimeToRun(now, target) == now > target /\ now < target + WindowSeconds

\* A loop that gives up after a failed run.
MutRunErrorReturns(err) == IF err = "nil" THEN "sleeping" ELSE "returned"

\* Where the loop goes after orch.Run returned err: the error is logged, and
\* both branches fall through to the recomputation and the sleep.
AfterRun(err) == "sleeping"

\* The instants at which Start is called: around the 20:00 of day 0.
StartInstants ==
    {Date(0, TargetHour) + d : d \in {-60, -30, -20, 0, 10, 30, 60, 90}}

\* How long orch.Run takes (0: under a second), and by how much a
\* time.Sleep(30 * time.Second) overruns (scheduling, a suspended process).
RunDurations == {0, 30, 90}
SleepOverruns == {0, 30, 60}

\* time.LoadLocation("Asia/Shanghai"): found, or no zone database.
ZoneLookups == {"ok", "unknown time zone Asia/Shanghai"}

NoCheck ==
    [made |-> FALSE, now |-> 0, target |-> 0, started |-> FALSE, first |-> FALSE,
     afterStop |-> 0]

InitSchedulerAt(t) ==
    /\ clock = t
    /\ spc = "new"
    /\ nextRun = 0
    /\ computedAt = -1
    /\ cancelled = FALSE
    /\ lastCheck = NoCheck
    /\ runLog = <<>>
    /\ lastRunErr = "none"
    /\ startRet = ""

InitSchedIdle == InitSchedulerAt(0)

\* Start, up to the loop: the zone lookup and the first nextRun.
SchedulerStart ==
    /\ spc = "new"
    /\ \E zone \in ZoneLookups :
        IF zone # "ok"
        THEN /\ spc' = "returned"
             /\ startRet' = "failed to load Beijing timezone: " \o zone
             /\ UNCHANGED <<nextRun, computedAt>>
        ELSE /\ spc' = "select"
             /\ nextRun' = getNext8PMBeijing(clock)
             /\ computedAt' = clock
             /\ UNCHANGED startRet
    /\ UNCHANGED <<clock, cancelled, lastCheck, runLog, lastRunErr,
                   dispatchVars, validateVars, retryVars, bootVars, wfVars,
                   apiVars, coverVars>>

\* A select that goes on to the check whatever the context says.
MutSelectIgnoresDone(done) == "check"

\* select { case <-s.ctx.Done(): return nil; default: }
AfterSelect(done) == IF done THEN "returned" ELSE "check"

\* The select at the head of the loop.
Select ==
    /\ spc = "select"
    /\ spc' = AfterSelect(cancelled)
    /\ startRet' = IF spc' = "returned" THEN "nil" ELSE startRet
    /\ UNCHANGED <<clock, nextRun, computedAt, cancelled, lastCheck, runLog,
                   lastRunErr, dispatchVars, validateVars, retryVars, bootVars,
                   wfVars,
                   apiVars, coverVars>>

\* The clock is read and isTimeToRun evaluated; orch.Run is entered when it
\* holds.  The context is not looked at again.
Check ==
    /\ spc = "check"
    /\ LET now == clock
           go == isTimeToRun(now, nextRun)
       IN  /\ lastCheck' = [made |-> TRUE, now |-> now, target |-> nextRun,
                            started |-> go, first |-> ~lastCheck.made,
                            afterStop |-> lastCheck.afterStop
                                            + (IF cancelled THEN 1 ELSE 0)]
           /\ runLog' = IF go
                        THEN Append(runLog, [at |-> now, target |-> nextRun,
                                             stopped |-> cancelled])
                        ELSE runLog
           /\ spc' = IF go THEN "running" ELSE "sleeping"
    /\ UNCHANGED <<clock, nextRun, computedAt, cancelled, lastRunErr, startRet,
                   dispatchVars, validateVars, retryVars, bootVars, wfVars,
                   apiVars, coverVars>>

\* orch.Run returns, nil or an error; nextRun is computed again.
RunReturns ==
    /\ spc = "running"
    /\ \E d \in RunDurations, err \in {"nil", "workflow failed"} :
        /\ clock + d <= Horizon
        /\ clock' = clock + d
        /\ lastRunErr' = err
        /\ nextRun' = getNext8PMBeijing(clock + d)
        /\ computedAt' = clock + d
        /\ spc' = AfterRun(err)
    /\ UNCHANGED <<cancelled, lastCheck, runLog, startRet,
                   dispatchVars, validateVars, retryVars, bootVars, wfVars,
                   apiVars, coverVars>>

\* time.Sleep(30 * time.Second) is over.
SleepDone ==
    /\ spc = "sleeping"
    /\ \E over \in SleepOverruns :
        /\ clock + CheckPeriodSeconds + over <= Horizon
        /\ clock' = clock + CheckPeriodSeconds + over
    /\ spc' = "select"
    /\ UNCHANGED <<nextRun, computedAt, cancelled, lastCheck, runLog, lastRunErr,
                   startRet, dispatchVars, validateVars, retryVars, bootVars, wfVars,
                   apiVars, coverVars>>

\* Stop, from the signal goroutine: s.cancel().
Stop ==
    /\ spc \in {"select", "check", "running", "sleeping"}
    /\ ~cancelled
    /\ cancelled' = TRUE
    /\ UNCHANGED <<clock, spc, nextRun, computedAt, lastCheck, runLog, lastRunErr,
                   startRet, dispatchVars, validateVars, retryVars, bootVars, wfVars,
                   apiVars, coverVars>>

-----------------------------------------------------------------------------
(* Start-up: config.Load and the two main functions that call it (the       *)
(* content generator and the unified server).                               *)

Binaries == {"content", "unified"}

\* The unified server's -scheduler and -run-once flags; the content generator
\* has no flags.
Modes(binary) ==
    IF binary = "unified" THEN {"api", "scheduler", "run-once"} ELSE {"none"}

\* config.json: not there, not JSON, or an object with the two api_key fields.
ConfigFiles ==
    {[kind |-> "absent", weather |-> "", deepseek |-> ""],
     [kind |-> "unparsable", weather |-> "", deepseek |-> ""]}
    \cup {[kind |-> "object", weather |-> w, deepseek |-> d] :
            w \in {"", "file-weather-key"}, d \in {"", "file-deepseek-key"}}

\* WEATHER_API_KEY and DEEPSEEK_API_KEY, "" when unset.
Environments ==
    {[weather |-> w, deepseek |-> d] :
        w \in {"", "env-weather-key"}, d \in {"", "env-deepseek-key"}}

Boots ==
    UNION {{[binary |-> b, mode |-> m, file |-> f, env |-> e] :
                m \in Modes(b), f \in ConfigFiles, e \in Environments} :
           b \in Binaries}

Config(weatherKey, deepSeekKey, model) ==
    [weatherKey |-> weatherKey, deepSeekKey |-> deepSeekKey, model |-> model]

\* if key := os.Getenv(...); key != "" { cfg.X.APIKey = key }
loadFromEnv(c, env) ==
    Config(IF env.weather # "" THEN env.weather ELSE c.weatherKey,
           IF env.deepseek # "" THEN env.deepseek ELSE c.deepSeekKey,
           c.model)

\* No default is set for an API key.
setDefaults(c) ==
    Config(c.weatherKey, c.deepSeekKey,
           IF c.model = "" THEN "deepseek-chat" ELSE c.model)

\* A validation that asks for the weather key only.
MutValidateWeatherOnly(c) ==
    IF c.weatherKey = "" THEN "weather API key is required" ELSE ""

\* The error text, "" for nil.
validate(c) ==
    IF c.weatherKey = "" THEN "weather API key is required"
    ELSE IF c.deepSeekKey = "" THEN "DeepSeek API key is required"
    ELSE ""

NilConfig == Config("", "", "")

\* config.Load: (cfg, err), loaded being cfg != nil.
Load(file, env) ==
    IF file.kind = "unparsable"
    THEN [loaded |-> FALSE, err |-> "failed to parse config.json", c |-> NilConfig]
    ELSE LET c == setDefaults(loadFromEnv(Config(file.weather, file.deepseek, ""), env))
         IN  IF validate(c) # ""
             THEN [loaded |-> FALSE,
                   err |-> "configuration validation failed: " \o validate(c),
                   c |-> NilConfig]
             ELSE [loaded |-> TRUE, err |-> "", c |-> c]

\* The routes of the unified server: the content generation API is mounted
\* only with an orchestrator.
Routes(orch) ==
    {"/", "/health"}
    \cup IF orch THEN {"/api/generate-and-publish", "/api/status"} ELSE {}

At(at, routes) == [at |-> at, routes |-> routes]

NoBoot ==
    [binary |-> "content", mode |-> "none",
     file |-> [kind |-> "absent", weather |-> "", deepseek |-> ""],
     env |-> [weather |-> "", deepseek |-> ""]]

InitBootIdle ==
    /\ boot = NoBoot
    /\ bpc = At("start", {})
    /\ cfg = [loaded |-> FALSE, err |-> "", c |-> NilConfig]

\* cfg, err := config.Load()
MainLoadConfig ==
    /\ bpc.at = "start"
    /\ cfg' = Load(boot.file, boot.env)
    /\ bpc' = At("loaded", {})
    /\ UNCHANGED <<boot, dispatchVars, validateVars, retryVars, schedVars, wfVars,
                   apiVars, coverVars>>

\* xiaohongshu-content: log.Fatalf on a load error, else orch.Run().
ContentMain ==
    /\ bpc.at = "loaded"
    /\ boot.binary = "content"
    /\ bpc' = IF cfg.err # "" THEN At("fatal", {}) ELSE At("workflow", {})
    /\ UNCHANGED <<boot, cfg, dispatchVars, validateVars, retryVars, schedVars, wfVars,
                   apiVars, coverVars>>

\* The unified server: a load error is a warning and leaves orch nil; the
\* scheduler and run-once modes are fatal without orch, the API server starts.
UnifiedMain ==
    /\ bpc.at = "loaded"
    /\ boot.binary = "unified"
    /\ LET orch == cfg.loaded
       IN  bpc' = IF boot.mode \in {"scheduler", "run-once"}
                  THEN IF ~orch THEN At("fatal", {})
                       ELSE IF boot.mode = "run-once" THEN At("workflow", {})
                       ELSE At("scheduling", {})
                  ELSE At("serving", Routes(orch))
    /\ UNCHANGED <<boot, cfg, dispatchVars, validateVars, retryVars, schedVars, wfVars,
                   apiVars, coverVars>>

-----------------------------------------------------------------------------
(* Orchestrator.Run: connectivity check, gather, LLM, cover, publish.       *)

\* GET <cfg.MCP.ServerURL>/health of the cover client's TestConnection.
HealthAnswers == {"ok", "no_connection", "status_500"}

\* covergen.Client.TestConnection: the error text, "" for nil.
CoverTestConnection(health) ==
    CASE health = "no_connection" -> "failed to connect to MCP server"
      [] health = "status_500" -> "MCP server health check failed with status 500"
      [] OTHER -> ""

\* xhs.Client.TestConnection: CheckLoginStatus, whose result is decoded as a
\* LoginStatusResponse and returned as it is.
XhsTestConnection(answer) == callMCP(answer)

\* A check that asks the cover server only.
MutTestConnectionsCoverOnly(health, answer) ==
    IF CoverTestConnection(health) # ""
    THEN [err |-> "MCP server connection failed: " \o CoverTestConnection(health),
          asked |-> <<"coverMCPClient.TestConnection">>]
    ELSE [err |-> "", asked |-> <<"coverMCPClient.TestConnection">>]

\* testConnections: (error text, the clients asked).
testConnections(health, answer) ==
    IF CoverTestConnection(health) # ""
    THEN [err |-> "MCP server connection failed: " \o CoverTestConnection(health),
          asked |-> <<"coverMCPClient.TestConnection">>]
    ELSE IF XhsTestConnection(answer) # ""
    THEN [err |-> "Xiaohongshu MCP server connection failed: " \o XhsTestConnection(answer),
          asked |-> <<"coverMCPClient.TestConnection", "xhsClient.TestConnection">>]
    ELSE [err |-> "",
          asked |-> <<"coverMCPClient.TestConnection", "xhsClient.TestConnection">>]

Fetchers == <<"weather", "lunar", "traffic", "visitor", "weibo">>

\* What a fetcher can return: the weather page, the lunar API and the weibo
\* API can fail; traffic and visitor figures are generated locally.
FetcherOutcomes(f) ==
    IF f \in {"weather", "lunar", "weibo"} THEN {"ok", "fail"} ELSE {"ok"}

FetcherCall(f) ==
    CASE f = "weather" -> "weatherSvc.GetWeatherInfo"
      [] f = "lunar" -> "lunarSvc.GetLunarInfo"
      [] f = "traffic" -> "trafficSvc.GetTrafficInfo"
      [] f = "visitor" -> "visitorSvc.GetVisitorInfo"
      [] OTHER -> "weiboSvc.GetTop2PostsForSummary"

\* A gather step that leaves out the visitor figures.
MutSkipVisitor(f) ==
    CASE f = "weather" -> "lunar"
      [] f = "lunar" -> "traffic"
      [] f = "traffic" -> "weibo"
      [] f = "visitor" -> "weibo"
      [] OTHER -> "llm"

\* The position after fetcher f.
AfterFetcher(f) ==
    CASE f = "weather" -> "lunar"
      [] f = "lunar" -> "traffic"
      [] f = "traffic" -> "visitor"
      [] f = "visitor" -> "weibo"
      [] OTHER -> "llm"

\* What the LLM answers: an error, or a title, a body and a cover text.
LlmOutputs ==
    {[err |-> "DeepSeek API error", title |-> Str(0, 1), content |-> Str(0, 1),
      coverText |-> ""],
     [err |-> "", title |-> Str(12, 3), content |-> Str(200, 3), coverText |-> "cover text"],
     [err |-> "", title |-> Str(12, 3), content |-> Str(200, 3), coverText |-> ""],
     [err |-> "", title |-> Str(40, 3), content |-> Str(200, 3), coverText |-> "cover text"]}

\* GET <cfg.MCP.BaseURL>/api/assets for selectRandomAsset.
AssetAnswers == {"some", "none", "no_connection"}

\* What the MCP server at cfg.MCP.ServerURL does with the cover tools/call.
CoverAnswers ==
    {"no_connection", "status_500", "bad_json", "rpc_error", "tool_error", "tool_ok"}

\* covergen.Client.GenerateXiaohongshuCover: the error text, "" for nil.  The
\* decoded response is read for its Error only; its Result is not looked at.
GenerateXiaohongshuCover(assets, answer) ==
    CASE assets = "no_connection" -> "failed to select random asset: failed to fetch assets"
      [] assets = "none" -> "failed to select random asset: no assets available"
      [] answer = "no_connection" -> "failed to call MCP server"
      [] answer = "status_500" -> "MCP server returned status 500"
      [] answer = "bad_json" -> "failed to decode MCP response"
      [] answer = "rpc_error" -> "MCP error"
      [] OTHER -> ""

\* Whether the screenshot file exists afterwards: the tool writes it only
\* when it answers without isError.
CoverWritten(assets, answer) == assets = "some" /\ answer = "tool_ok"

\* PostWithRetry(postReq, n) against the given answers of the server, one per
\* attempt: success, the attempts made and the answer that ended it.
PostWithRetry(answers, n) ==
    LET RECURSIVE Try(_)
        Try(k) ==
            IF ~LoopCondition(k, n)
            THEN [ok |-> FALSE, attempts |-> k, answer |-> ""]
            ELSE IF PostContent(answers[k + 1], 0).ok
            THEN [ok |-> TRUE, attempts |-> k + 1, answer |-> answers[k + 1]]
            ELSE Try(k + 1)
    IN  Try(0)

NoWorkflowResult ==
    [weather |-> "", lunar |-> "", traffic |-> "", visitor |-> "", weibo |-> "",
     content |-> "", image |-> "", post |-> "", success |-> FALSE, error |-> ""]

NoContentRequest ==
    [built |-> FALSE, weather |-> "", lunar |-> "", traffic |-> "", visitor |-> "",
     weibo |-> ""]

NoWorld ==
    [llm |-> [err |-> "", title |-> Str(0, 1), content |-> Str(0, 1), coverText |-> ""],
     health |-> "", xhs |-> "", fetched |-> <<>>, assets |-> "", cover |-> "",
     coverWritten |-> FALSE, publishAttempts |-> 0, published |-> FALSE]

InitWorkflowIdle ==
    /\ wpc = "idle"
    /\ wfCalls = <<>>
    /\ wfResult = NoWorkflowResult
    /\ wfLlmReq = NoContentRequest
    /\ wfWorld = NoWorld
    /\ runRet = ""

\* Run is entered: result := &WorkflowResult{Timestamp: start}.
RunStart ==
    /\ wpc = "idle"
    /\ wpc' = "connect"
    /\ UNCHANGED <<wfCalls, wfResult, wfLlmReq, wfWorld, runRet,
                   dispatchVars, validateVars, retryVars, schedVars, bootVars,
                   apiVars, coverVars>>

\* return fmt.Errorf(result.Error)
Abort(text) ==
    /\ wfResult' = [wfResult EXCEPT !.error = text]
    /\ runRet' = text
    /\ wpc' = "done"

\* Step 1.
TestConnections ==
    /\ wpc = "connect"
    /\ \E health \in HealthAnswers, answer \in ServerAnswers :
        LET t == testConnections(health, answer)
        IN  /\ wfCalls' = wfCalls \o t.asked
            /\ wfWorld' = [wfWorld EXCEPT !.health = health, !.xhs = answer]
            /\ IF t.err # ""
               THEN Abort("Connection test failed: " \o t.err)
               ELSE /\ wpc' = "weather"
                    /\ UNCHANGED <<wfResult, runRet>>
    /\ UNCHANGED <<wfLlmReq, dispatchVars, validateVars, retryVars,
                   schedVars, bootVars,
                   apiVars, coverVars>>

\* Step 2, one fetcher returning `out`: a failure is logged and the field
\* stays unset.
Fetched(f, out) ==
    /\ wfCalls' = Append(wfCalls, FetcherCall(f))
    /\ wfWorld' = [wfWorld EXCEPT !.fetched = Append(@, out)]
    /\ wfResult' = IF out = "ok"
                   THEN [wfResult EXCEPT ![f] = f \o " info"]
                   ELSE wfResult
    /\ wpc' = AfterFetcher(f)

GetWeatherInfo ==
    /\ wpc = "weather"
    /\ \E out \in FetcherOutcomes("weather") : Fetched("weather", out)
    /\ UNCHANGED <<wfLlmReq, runRet, dispatchVars, validateVars, retryVars,
                   schedVars, bootVars,
                   apiVars, coverVars>>

GetLunarInfo ==
    /\ wpc = "lunar"
    /\ \E out \in FetcherOutcomes("lunar") : Fetched("lunar", out)
    /\ UNCHANGED <<wfLlmReq, runRet, dispatchVars, validateVars, retryVars,
                   schedVars, bootVars,
                   apiVars, coverVars>>

GetTrafficInfo ==
    /\ wpc = "traffic"
    /\ \E out \in FetcherOutcomes("traffic") : Fetched("traffic", out)
    /\ UNCHANGED <<wfLlmReq, runRet, dispatchVars, validateVars, retryVars,
                   schedVars, bootVars,
                   apiVars, coverVars>>

GetVisitorInfo ==
    /\ wpc = "visitor"
    /\ \E out \in FetcherOutcomes("visitor") : Fetched("visitor", out)
    /\ UNCHANGED <<wfLlmReq, runRet, dispatchVars, validateVars, retryVars,
                   schedVars, bootVars,
                   apiVars, coverVars>>

GetTop2PostsForSummary ==
    /\ wpc = "weibo"
    /\ \E out \in FetcherOutcomes("weibo") : Fetched("weibo", out)
    /\ UNCHANGED <<wfLlmReq, runRet, dispatchVars, validateVars, retryVars,
                   schedVars, bootVars,
                   apiVars, coverVars>>

\* A request that leaves out the Weibo summary.
MutContentRequestWithoutWeibo(r) ==
    [built |-> TRUE, weather |-> r.weather, lunar |-> r.lunar, traffic |-> "",
     visitor |-> r.visitor, weibo |-> ""]

\* contentReq := &llm.ContentRequest{Weather, Lunar, Visitor, Weibo, Theme};
\* the Traffic field is commented out.
ContentRequest(r) ==
    [built |-> TRUE, weather |-> r.weather, lunar |-> r.lunar, traffic |-> "",
     visitor |-> r.visitor, weibo |-> r.weibo]

\* Step 3.
GenerateContent ==
    /\ wpc = "llm"
    /\ wfLlmReq' = ContentRequest(wfResult)
    /\ wfCalls' = Append(wfCalls, "llmSvc.GenerateContent")
    /\ \E out \in LlmOutputs :
        /\ wfWorld' = [wfWorld EXCEPT !.llm = out]
        /\ IF out.err # ""
           THEN Abort("Content generation failed: " \o out.err)
           ELSE /\ wfResult' = [wfResult EXCEPT !.content = "generated"]
                /\ wpc' = "cover"
                /\ UNCHANGED runRet
    /\ UNCHANGED <<dispatchVars, validateVars, retryVars, schedVars, bootVars,
                   apiVars, coverVars>>

\* Step 4.
GenerateCover ==
    /\ wpc = "cover"
    /\ wfCalls' = Append(wfCalls, "coverMCPClient.GenerateXiaohongshuCover")
    /\ \E assets \in AssetAnswers, answer \in CoverAnswers :
        /\ wfWorld' = [wfWorld EXCEPT !.assets = assets,
                                      !.cover = IF assets = "some" THEN answer ELSE "",
                                      !.coverWritten = CoverWritten(assets, answer)]
        /\ IF GenerateXiaohongshuCover(assets, answer) # ""
           THEN Abort("Image generation failed: "
                      \o GenerateXiaohongshuCover(assets, answer))
           ELSE /\ wfResult' = [wfResult EXCEPT !.image = "cover_<timestamp>.jpeg"]
                /\ wpc' = "publish"
                /\ UNCHANGED runRet
    /\ UNCHANGED <<wfLlmReq, dispatchVars, validateVars, retryVars, schedVars,
                   bootVars,
                   apiVars, coverVars>>

\* postReq := &xhs.PostRequest{Title, Content, Images: []string{imageResp.ImageURL}}
WorkflowPost(llm) == [title |-> llm.title, content |-> llm.content, images |-> 1]

\* A publish step that posts without validating first.
MutPublishUnvalidated ==
    /\ wpc = "publish"
    /\ \E answers \in [1..OrchestratorRetries -> ServerAnswers] :
          LET r == PostWithRetry(answers, OrchestratorRetries)
          IN  /\ wfCalls' = wfCalls \o <<"xhsClient.ValidatePostRequest",
                                         "xhsClient.PostWithRetry">>
              /\ wfWorld' = [wfWorld EXCEPT !.publishAttempts = r.attempts,
                                            !.published = r.answer = "tool_ok"]
              /\ IF ~r.ok
                 THEN Abort("Posting failed: failed to post content after 3 retries")
                 ELSE /\ wfResult' = [wfResult EXCEPT !.post = r.answer,
                                                      !.success = TRUE]
                      /\ runRet' = "nil"
                      /\ wpc' = "done"
    /\ UNCHANGED <<wfLlmReq, dispatchVars, validateVars, retryVars, schedVars,
                   bootVars,
                   apiVars, coverVars>>

\* Step 5 and 6: validation, PostWithRetry(postReq, 3), success.
Publish ==
    /\ wpc = "publish"
    /\ LET post == WorkflowPost(wfWorld.llm)
       IN  IF ValidatePostRequest(post) # "nil"
           THEN /\ wfCalls' = Append(wfCalls, "xhsClient.ValidatePostRequest")
                /\ Abort("Post validation failed: " \o ValidatePostRequest(post))
                /\ UNCHANGED wfWorld
           ELSE \E answers \in [1..OrchestratorRetries -> ServerAnswers] :
                   LET r == PostWithRetry(answers, OrchestratorRetries)
                   IN  /\ wfCalls' = wfCalls \o <<"xhsClient.ValidatePostRequest",
                                                  "xhsClient.PostWithRetry">>
                       /\ wfWorld' = [wfWorld EXCEPT
                                        !.publishAttempts = r.attempts,
                                        !.published = r.answer = "tool_ok"]
                       /\ IF ~r.ok
                          THEN Abort("Posting failed: failed to post content after 3 retries")
                          ELSE /\ wfResult' = [wfResult EXCEPT !.post = r.answer,
                                                               !.success = TRUE]
                               /\ runRet' = "nil"
                               /\ wpc' = "done"
    /\ UNCHANGED <<wfLlmReq, dispatchVars, validateVars, retryVars, schedVars,
                   bootVars,
                   apiVars, coverVars>>

-----------------------------------------------------------------------------
(* The unified server once main has chosen its mode: the scheduler loop in  *)
(* scheduler mode, the gin router with POST /api/generate-and-publish in    *)
(* API mode, where net/http serves each request on a goroutine of its own.  *)

MaxRequests == 2

Requests == 1..MaxRequests

ServerModes == {"api", "scheduler"}

\* The steps of Orchestrator.Run, as a caller sees them pass.
RunSteps == <<"connect", "gather", "llm", "cover", "publish">>

\* A gather step fails no run; each of the other steps can.
StepOutcomes(step) == IF step = "gather" THEN {"ok"} ELSE {"ok", "fail"}

StepIndex(step) == CHOOSE k \in DOMAIN RunSteps : RunSteps[k] = step

NoApiRequest == [pc |-> "none", err |-> "", status |-> 0]

\* Whether request q has an Orchestrator.Run in progress.
InRun(q) == \E k \in DOMAIN RunSteps : q.pc = RunSteps[k]

\* A main that starts the HTTP server in every mode.
MutServerAlwaysStarted(mode) == TRUE

\* unifiedServer.Start is reached in API mode only: in scheduler mode main
\* starts the loop, waits for a signal, calls Stop and returns.
ServerStarted(mode) == mode = "api"

\* A handler that holds a lock around the run.
MutRunLocked(busy) == IF busy THEN "waiting" ELSE "connect"

\* handleGenerateAndPublish calls s.orch.Run() at once, whether or not
\* another request has a run in progress.
AfterAccept(busy) == "connect"

InitApiIdle ==
    /\ apiMode = "none"
    /\ apiOrch = FALSE
    /\ apiReq = [r \in Requests |-> NoApiRequest]

\* A client sends POST /api/generate-and-publish: no listener in scheduler
\* mode, no route without an orchestrator, else the handler enters Run.
HandleGenerateAndPublish ==
    /\ \E r \in Requests :
        /\ apiReq[r].pc = "none"
        /\ apiReq' = [apiReq EXCEPT ![r] =
              IF ~ServerStarted(apiMode)
              THEN [pc |-> "refused", err |-> "connection refused", status |-> 0]
              ELSE IF ~apiOrch
              THEN [pc |-> "answered", err |-> "", status |-> 404]
              ELSE [pc |-> AfterAccept(\E q \in Requests \ {r} : InRun(apiReq[q])),
                    err |-> "", status |-> 0]]
    /\ UNCHANGED <<apiMode, apiOrch>>
    /\ UNCHANGED <<dispatchVars, validateVars, retryVars, schedVars, bootVars,
                   wfVars, coverVars>>

\* The run of a request makes its next step: on to the following step, or
\* out of Run with an error, or out of Run with nil after the publish step.
ApiRunStep ==
    /\ \E r \in Requests :
        /\ InRun(apiReq[r])
        /\ \E out \in StepOutcomes(apiReq[r].pc) :
            LET k == StepIndex(apiReq[r].pc)
            IN  apiReq' = [apiReq EXCEPT ![r] =
                  IF out = "fail"
                  THEN [pc |-> "returned", err |-> RunSteps[k] \o " failed", status |-> 0]
                  ELSE IF k < Len(RunSteps)
                  THEN [pc |-> RunSteps[k + 1], err |-> "", status |-> 0]
                  ELSE [pc |-> "returned", err |-> "nil", status |-> 0]]
    /\ UNCHANGED <<apiMode, apiOrch>>
    /\ UNCHANGED <<dispatchVars, validateVars, retryVars, schedVars, bootVars,
                   wfVars, coverVars>>

\* c.JSON(500, ...) when Run returned an error, c.JSON(200, ...) otherwise.
ApiRespond ==
    /\ \E r \in Requests :
        /\ apiReq[r].pc = "returned"
        /\ apiReq' = [apiReq EXCEPT ![r] =
              [pc |-> "answered", err |-> apiReq[r].err,
               status |-> IF apiReq[r].err = "nil" THEN StatusOK
                          ELSE StatusInternalServerError]]
    /\ UNCHANGED <<apiMode, apiOrch>>
    /\ UNCHANGED <<dispatchVars, validateVars, retryVars, schedVars, bootVars,
                   wfVars, coverVars>>

-----------------------------------------------------------------------------
(* generate_xiaohongshu_cover calls served at the same time, each on its    *)
(* own goroutine, and the files they write.                                 *)

MaxCoverCalls == 2

CoverCalls == 1..MaxCoverCalls

\* time.Now() of generateOutputPath, to the second.
StampSeconds == {5, 6}

\* filepath.Join(OutDir, "cover_" + now.Format("20060102_150405") + ".jpeg")
generateOutputPath(sec) == "covers/cover_20060102_15040" \o ToString(sec) \o ".jpeg"

\* An output_path that only call c asks for.
OwnPath(c) == "out/cover_" \o ToString(c) \o ".png"

\* Who calls the tool: a tool caller without output_path or with a path of
\* its own, or the orchestrator's client with its timestamped path.
CoverCallers(c) ==
    {[from |-> "tool", args |-> NoArgs],
     [from |-> "tool", args |-> [output_path |-> JV("string", OwnPath(c))]]}
        \cup {[from |-> "orchestrator",
               args |-> [output_path |-> JV("string", generateOutputPath(sec))]] :
                sec \in StampSeconds}

OutputPaths ==
    {StrArg(MergeDefaults(k.args), "output_path") :
        k \in UNION {CoverCallers(c) : c \in CoverCalls}}

\* What a path holds: nothing, an empty file, the screenshot taken by call c
\* (the number c), or bytes of more than one screenshot.
Absent == 0
Empty == -1
Mixed == -2

NoCoverCall ==
    [pc |-> "none", from |-> "", path |-> "", buf |-> Absent, result |-> "",
     held |-> Absent]

InitCoverIdle ==
    /\ coverCall = [c \in CoverCalls |-> NoCoverCall]
    /\ files = [f \in OutputPaths |-> Absent]

\* What the path holds after call c has written its buffer at offset 0 of the
\* file it opened: its own screenshot, or, when another call wrote a
\* screenshot since c truncated the file, possibly the tail of that one too.
AfterWrite(held, c) == IF held = Empty THEN {c} ELSE {c, Mixed}

\* The handler is entered: the defaults are merged and the path is read.
CoverCallArrives ==
    /\ \E c \in CoverCalls : \E k \in CoverCallers(c) :
        /\ coverCall[c].pc = "none"
        /\ coverCall' = [coverCall EXCEPT ![c] =
              [NoCoverCall EXCEPT !.pc = "shooting", !.from = k.from,
                  !.path = StrArg(MergeDefaults(k.args), "output_path")]]
    /\ UNCHANGED files
    /\ UNCHANGED <<dispatchVars, validateVars, retryVars, schedVars, bootVars,
                   wfVars, apiVars>>

\* chromedp.Run: the screenshot is in buf, or the browser run failed and the
\* handler answers with isError.
Screenshot ==
    /\ \E c \in CoverCalls, down \in DownOutcomes :
        /\ coverCall[c].pc = "shooting"
        /\ coverCall' = [coverCall EXCEPT ![c] =
              IF TakeScreenshot("#exportable", coverCall[c].path, down).success
              THEN [@ EXCEPT !.pc = "opening", !.buf = c]
              ELSE [@ EXCEPT !.pc = "done", !.result = "isError"]]
    /\ UNCHANGED files
    /\ UNCHANGED <<dispatchVars, validateVars, retryVars, schedVars, bootVars,
                   wfVars, apiVars>>

\* ioutil.WriteFile, first half: the path is opened with O_TRUNC.
WriteFileOpen ==
    /\ \E c \in CoverCalls :
        /\ coverCall[c].pc = "opening"
        /\ files' = [files EXCEPT ![coverCall[c].path] = Empty]
        /\ coverCall' = [coverCall EXCEPT ![c].pc = "writing"]
    /\ UNCHANGED <<dispatchVars, validateVars, retryVars, schedVars, bootVars,
                   wfVars, apiVars>>

\* ioutil.WriteFile, second half: buf is written and the file closed.
WriteFileWrite ==
    /\ \E c \in CoverCalls :
        /\ coverCall[c].pc = "writing"
        /\ \E after \in AfterWrite(files[coverCall[c].path], coverCall[c].buf) :
            files' = [files EXCEPT ![coverCall[c].path] = after]
        /\ coverCall' = [coverCall EXCEPT ![c].pc = "written"]
    /\ UNCHANGED <<dispatchVars, validateVars, retryVars, schedVars, bootVars,
                   wfVars, apiVars>>

\* The handler answers "generated successfully: <path>"; held is what the
\* path holds at that moment.
CoverReport ==
    /\ \E c \in CoverCalls :
        /\ coverCall[c].pc = "written"
        /\ coverCall' = [coverCall EXCEPT ![c] =
              [@ EXCEPT !.pc = "done", !.result = "success",
                        !.held = files[coverCall[c].path]]]
    /\ UNCHANGED files
    /\ UNCHANGED <<dispatchVars, validateVars, retryVars, schedVars, bootVars,
                   wfVars, apiVars>>

-----------------------------------------------------------------------------
(* Specifications.                                                          *)

InitDispatch ==
    /\ server \in Servers
    /\ InitDispatchIdle
    /\ InitValidateIdle
    /\ InitRetryIdle
    /\ InitSchedIdle
    /\ InitBootIdle
    /\ InitWorkflowIdle
    /\ InitApiIdle
    /\ InitCoverIdle

NextDispatch == ServeHTTP

SpecDispatch == InitDispatch /\ [][NextDispatch]_vars

InitValidate ==
    /\ server = "unified"
    /\ InitDispatchIdle
    /\ postReq \in PostRequests
    /\ validateErr = "unchecked"
    /\ InitRetryIdle
    /\ InitSchedIdle
    /\ InitBootIdle
    /\ InitWorkflowIdle
    /\ InitApiIdle
    /\ InitCoverIdle

NextValidate == Validate

SpecValidate == InitValidate /\ [][NextValidate]_vars

InitRetry ==
    /\ server = "unified"
    /\ InitDispatchIdle
    /\ InitValidateIdle
    /\ InitRetryIdle
    /\ InitSchedIdle
    /\ InitBootIdle
    /\ InitWorkflowIdle
    /\ InitApiIdle
    /\ InitCoverIdle

NextRetry == CallPostWithRetry \/ Attempt \/ Sleep \/ GiveUp

SpecRetry == InitRetry /\ [][NextRetry]_vars

InitScheduler ==
    /\ server = "unified"
    /\ InitDispatchIdle
    /\ InitValidateIdle
    /\ InitRetryIdle
    /\ \E t \in StartInstants : InitSchedulerAt(t)
    /\ InitBootIdle
    /\ InitWorkflowIdle
    /\ InitApiIdle
    /\ InitCoverIdle

NextScheduler ==
    SchedulerStart \/ Select \/ Check \/ RunReturns \/ SleepDone \/ Stop

SpecScheduler == InitScheduler /\ [][NextScheduler]_vars

\* The loop is a goroutine of its own: each of its steps is taken once it can
\* be.  Stop comes from a signal and need never come.
SpecSchedulerFair ==
    /\ SpecScheduler
    /\ WF_vars(SchedulerStart)
    /\ WF_vars(Select)
    /\ WF_vars(Check)
    /\ WF_vars(RunReturns)
    /\ WF_vars(SleepDone)

\* In scheduler mode the loop is started half a minute before a target.
ServeStartInstant == Date(MaxDays, TargetHour) - CheckPeriodSeconds

\* In API mode main creates no scheduler.
InitNoScheduler ==
    /\ clock = ServeStartInstant
    /\ spc = "none"
    /\ nextRun = 0
    /\ computedAt = -1
    /\ cancelled = FALSE
    /\ lastCheck = NoCheck
    /\ runLog = <<>>
    /\ lastRunErr = "none"
    /\ startRet = ""

InitServe ==
    /\ server = "unified"
    /\ InitDispatchIdle
    /\ InitValidateIdle
    /\ InitRetryIdle
    /\ InitBootIdle
    /\ InitWorkflowIdle
    /\ InitCoverIdle
    /\ apiReq = [r \in Requests |-> NoApiRequest]
    /\ \/ /\ apiMode = "scheduler"
          /\ apiOrch = TRUE
          /\ InitSchedulerAt(ServeStartInstant)
       \/ /\ apiMode = "api"
          /\ apiOrch \in BOOLEAN
          /\ InitNoScheduler

NextServe ==
    \/ HandleGenerateAndPublish
    \/ ApiRunStep
    \/ ApiRespond
    \/ SchedulerStart
    \/ Select
    \/ Check
    \/ RunReturns
    \/ SleepDone
    \/ Stop

SpecServe == InitServe /\ [][NextServe]_vars

InitCover ==
    /\ server = "unified"
    /\ InitDispatchIdle
    /\ InitValidateIdle
    /\ InitRetryIdle
    /\ InitSchedIdle
    /\ InitBootIdle
    /\ InitWorkflowIdle
    /\ InitApiIdle
    /\ InitCoverIdle

NextCover ==
    CoverCallArrives \/ Screenshot \/ WriteFileOpen \/ WriteFileWrite \/ CoverReport

SpecCover == InitCover /\ [][NextCover]_vars

InitBoot ==
    /\ server = "unified"
    /\ InitDispatchIdle
    /\ InitValidateIdle
    /\ InitRetryIdle
    /\ InitSchedIdle
    /\ boot \in Boots
    /\ bpc = At("start", {})
    /\ cfg = [loaded |-> FALSE, err |-> "", c |-> NilConfig]
    /\ InitWorkflowIdle
    /\ InitApiIdle
    /\ InitCoverIdle

NextBoot == MainLoadConfig \/ ContentMain \/ UnifiedMain

SpecBoot == InitBoot /\ [][NextBoot]_vars

InitWorkflow ==
    /\ server = "unified"
    /\ InitDispatchIdle
    /\ InitValidateIdle
    /\ InitRetryIdle
    /\ InitSchedIdle
    /\ InitBootIdle
    /\ InitWorkflowIdle
    /\ InitApiIdle
    /\ InitCoverIdle

NextWorkflow ==
    \/ RunStart
    \/ TestConnections
    \/ GetWeatherInfo
    \/ GetLunarInfo
    \/ GetTrafficInfo
    \/ GetVisitorInfo
    \/ GetTop2PostsForSummary
    \/ GenerateContent
    \/ GenerateCover
    \/ Publish

SpecWorkflow == InitWorkflow /\ [][NextWorkflow]_vars

-----------------------------------------------------------------------------
(* Properties of the dispatcher (SpecDispatch).                             *)

IsPost == httpReq.method = "POST"

Decoded == IsPost /\ Decode(httpReq.body).err = ""

Req == Decode(httpReq.body).req

ErrorReply(code) ==
    /\ resp.status = StatusOK
    /\ resp.body.kind = "error"
    /\ resp.body.code = code

EmptyReply == resp.body.kind = "none" /\ resp.status = StatusOK

KnownMethods ==
    {"initialize", "tools/list", "tools/call", "notifications/initialized",
     "notifications/cancelled"}

\* The method names of the form notifications/* among the inputs.
NotificationNamespace ==
    {"notifications/initialized", "notifications/cancelled", "notifications/progress"}

IsToolsCall == Decoded /\ Req.method = "tools/call"

LacksNameOrArguments ==
    \/ Req.params.t # "object"
    \/ Req.params.name.t # "string"
    \/ Req.params.arguments.t # "object"

\* C1: a tools/call whose params lack `name` (or carry a non-string name) or
\* lack `arguments` (or carry a non-object arguments) is answered with the
\* JSON-RPC error -32602, and the handler does not crash.
C1_InvalidParamsNeverCrashes ==
    (IsToolsCall /\ LacksNameOrArguments) => ErrorReply(CodeInvalidParams)

\* C2: a POST body that cannot be decoded is answered with the JSON-RPC error
\* -32700 whose data is the decoder's error message, and no method handler is
\* invoked for it.
C2_ParseErrorCarriesDecoderMessage ==
    (IsPost /\ Decode(httpReq.body).err # "") =>
        /\ ErrorReply(CodeParseError)
        /\ resp.body.data = Decode(httpReq.body).err
        /\ calls = <<>>

C2_Witness ==
    /\ IsPost
    /\ httpReq.body.kind = "badmethod"
    /\ resp.body.kind = "error"
    /\ resp.body.data = Decode(httpReq.body).err

\* C3: a decoded request whose method is none of initialize, tools/list,
\* tools/call, notifications/initialized, notifications/cancelled (the empty
\* name included) is answered with the JSON-RPC error -32601, and no handler
\* is invoked.
C3_UnknownMethodNotFound ==
    (Decoded /\ Req.method \notin KnownMethods) =>
        /\ ErrorReply(CodeMethodNotFound)
        /\ calls = <<>>

C3_Witness ==
    /\ Decoded
    /\ Req.method = ""
    /\ httpReq.body.kind = "object"
    /\ ErrorReply(CodeMethodNotFound)

\* C4 as claimed: a request whose method is of the form notifications/* (any
\* suffix) gets no JSON body, with or without an id.
C4_EveryNotificationSilent ==
    (Decoded /\ Req.method \in NotificationNamespace) => EmptyReply

\* C4 as amended: a request whose method is notifications/initialized or
\* notifications/cancelled gets status 200 and no JSON body, with or without
\* an id, and no handler is invoked; every other notifications/* method is
\* answered like any unknown method, with the JSON-RPC error -32601.
C4_RecognizedNotificationsSilent ==
    /\ (Decoded /\ Req.method \in {"notifications/initialized", "notifications/cancelled"})
            => (EmptyReply /\ calls = <<>>)
    /\ (Decoded /\ Req.method \in NotificationNamespace \ KnownMethods)
            => ErrorReply(CodeMethodNotFound)

C4_Witness ==
    /\ Decoded
    /\ Req.method = "notifications/cancelled"
    /\ Req.id # JNil
    /\ EmptyReply

IsToolsList == Decoded /\ Req.method = "tools/list"

ListedNames == [n \in DOMAIN resp.body.result.tools |-> resp.body.result.tools[n].name]

\* C5 as claimed: the reply to tools/list is always the catalog of exactly the
\* 5 tool descriptors generate_xiaohongshu_cover, check_login_status,
\* publish_content, list_feeds, search_feeds, whatever the params and the
\* requests handled before.
C5_ToolsListAlwaysFive ==
    IsToolsList =>
        /\ resp.body.kind = "result"
        /\ ListedNames = ToolNames

\* C5 as amended: the unified server's reply to tools/list is always that
\* catalog of 5 descriptors, and the stand-alone cover server's reply is
\* always its own catalog of the 1 descriptor generate_xiaohongshu_cover;
\* neither depends on the params or on the requests handled before.
C5_ToolsListFixedPerServer ==
    IsToolsList =>
        /\ resp.status = StatusOK
        /\ resp.body.kind = "result"
        /\ resp.body.id = Req.id
        /\ server = "unified" =>
              /\ ListedNames = ToolNames
              /\ resp.body.result.tools[3].required = {"title", "content", "images"}
              /\ resp.body.result.tools[5].required = {"keyword"}
        /\ server = "cover" => ListedNames = <<"generate_xiaohongshu_cover">>

\* tools/list with params, after a tools/call and without any initialize.
C5_Witness ==
    /\ IsToolsList
    /\ server = "unified"
    /\ Req.params.t = "object"
    /\ served = {"tools/call"}
    /\ Len(resp.body.result.tools) = Len(ToolNames)

\* The argument map the cover handler receives from handleToolsCall.
CallerArgs ==
    IF Req.params.arguments.t = "object" THEN Req.params.arguments.m ELSE <<>>

CoverHandlerRan ==
    /\ IsToolsCall
    /\ Len(calls) >= 2
    /\ calls[2] = "generate_xiaohongshu_cover"

-----------------------------------------------------------------------------
(* Properties of post validation (SpecValidate).                            *)

Validated == validateErr # "unchecked"

\* The causes of rejection present in a post, lengths counted in characters.
Causes(req) ==
    {c \in {"empty title", "empty content", "no image", "long title", "long content"} :
        CASE c = "empty title" -> req.title.chars = 0
          [] c = "empty content" -> req.content.chars = 0
          [] c = "no image" -> req.images = 0
          [] c = "long title" -> req.title.chars > MaxTitleLen
          [] OTHER -> req.content.chars > MaxContentLen}

OwnError ==
    [c \in {"empty title", "empty content", "no image", "long title", "long content"} |->
        CASE c = "empty title" -> "title is required"
          [] c = "empty content" -> "content is required"
          [] c = "no image" -> "at least one image is required"
          [] c = "long title" -> "title too long (max 100 characters)"
          [] OTHER -> "content too long (max 1000 characters)"]

\* C7: a post with an empty title, empty content, zero images, a title of more
\* than 100 characters or content of more than 1000 characters is rejected,
\* and each of the five causes, when it is the only one, yields its own
\* error, different from the errors of the other four.
C7_RejectsEachCauseDistinctly ==
    Validated =>
        /\ Causes(postReq) # {} => validateErr # "nil"
        /\ \A c \in DOMAIN OwnError :
              Causes(postReq) = {c} =>
                  /\ validateErr = OwnError[c]
                  /\ \A d \in DOMAIN OwnError \ {c} : validateErr # OwnError[d]

\* C8: the caps count characters: a post with a non-empty title of at most
\* 100 characters, non-empty content of at most 1000 characters and at least
\* one image passes, also when its characters are multi-byte.
C8_CapsCountCharacters ==
    (Validated /\ Causes(postReq) = {}) => validateErr = "nil"

-----------------------------------------------------------------------------
(* Properties of PostWithRetry (SpecRetry).                                 *)

Failed(k) == ~attempts[k].ok

\* C9: PostWithRetry(req, n) stops at the first successful PostContent and
\* returns its response; when every attempt fails it makes exactly n
\* attempts, does not sleep after the last one, and returns an error that
\* names n and wraps the error of the last attempt.
C9_RetryStopsOrExhausts ==
    /\ \A k \in 1..(Len(attempts) - 1) : Failed(k)
    /\ (Len(attempts) > 0 /\ attempts[Len(attempts)].ok) =>
          /\ pc = "done"
          /\ ret.err = ""
          /\ ret.resp = attempts[Len(attempts)].resp
    /\ (pc = "done" /\ ret.err # "") =>
          /\ \A k \in 1..Len(attempts) : Failed(k)
          /\ Len(attempts) = maxRetries
          /\ Len(sleeps) = IF maxRetries = 0 THEN 0 ELSE maxRetries - 1
          /\ ret.retries = maxRetries
          /\ maxRetries > 0 => ret.wraps = attempts[maxRetries].err

C9_Witness ==
    /\ pc = "done"
    /\ maxRetries = OrchestratorRetries
    /\ ret.err # ""
    /\ Len(attempts) = OrchestratorRetries
    /\ ret.wraps = "posting error"

\* C10 as claimed: in PostWithRetry(req, 3) the delay after failed attempt i
\* (0-based) is i*10 seconds: 0 s after the first failure, 10 s after the
\* second.
C10_DelayIsIndexTimesTen ==
    maxRetries = OrchestratorRetries =>
        \A k \in DOMAIN sleeps : sleeps[k] = (k - 1) * RetryUnitSeconds

\* C10 as amended: the delay after failed attempt i (0-based) is (i+1)*10
\* seconds: in PostWithRetry(req, 3) under persistent failure, 10 s after the
\* first failure and 20 s after the second.
C10_DelayIsNextIndexTimesTen ==
    /\ \A k \in DOMAIN sleeps : sleeps[k] = k * RetryUnitSeconds
    /\ (pc = "done" /\ ret.err # "" /\ maxRetries = OrchestratorRetries) =>
          sleeps = <<RetryUnitSeconds, 2 * RetryUnitSeconds>>

C10_Witness ==
    /\ pc = "done"
    /\ ret.err # ""
    /\ maxRetries = OrchestratorRetries
    /\ Len(sleeps) = 2
    /\ sleeps[2] = 2 * RetryUnitSeconds

-----------------------------------------------------------------------------
(* Properties of the scheduler (SpecScheduler, SpecSchedulerFair).          *)

\* 20:00 of the Beijing calendar day of instant t.
TodayAt8PM(t) == Date(DayOf(t), TargetHour)

InWindow(t, target) == target <= t /\ t < target + WindowSeconds

\* C11: for an instant strictly before 20:00 Beijing time getNext8PMBeijing
\* gives 20:00 of the same Beijing day, for an instant strictly after 20:00
\* it gives 20:00 of the following Beijing day, and the result is never
\* earlier than the instant.
C11_NextRunIsNext8PM ==
    computedAt >= 0 =>
        /\ computedAt < TodayAt8PM(computedAt) => nextRun = TodayAt8PM(computedAt)
        /\ computedAt > TodayAt8PM(computedAt) =>
              nextRun = Date(DayOf(computedAt) + 1, TargetHour)
        /\ nextRun >= computedAt

C11_Witness ==
    /\ lastRunErr # "none"
    /\ computedAt > TodayAt8PM(computedAt)
    /\ nextRun = Date(DayOf(computedAt) + 1, TargetHour)
    /\ runLog[Len(runLog)].target = TodayAt8PM(computedAt)

\* C12: a check starts the workflow exactly when the checked instant lies in
\* [target, target+60s), the instant target included; and a scheduler started
\* inside the window of the day starts the workflow at its first check.
C12_RunsExactlyInWindow ==
    lastCheck.made =>
        /\ lastCheck.started <=> InWindow(lastCheck.now, lastCheck.target)
        /\ (lastCheck.first /\ InWindow(lastCheck.now, TodayAt8PM(lastCheck.now))) =>
              lastCheck.started

RanFor(d) == \E k \in DOMAIN runLog : runLog[k].target = Date(d, TargetHour)

Looping == spc \in {"select", "check", "running", "sleeping"}

\* Once a check or a sleep finds the clock past the window of nextRun, no step
\* changes nextRun or starts a run: a missed window is missed for good, at
\* every clock value and not only at the last instant the model considers.
MissedWindowIsPermanent ==
    [][(spc \in {"select", "check", "sleeping"} /\ clock >= nextRun + WindowSeconds)
          => (nextRun' = nextRun /\ runLog' = runLog)]_vars

C14_FailedRunKeepsScheduling ==
    /\ spc = "returned" =>
          \/ cancelled /\ startRet = "nil"
          \/ runLog = <<>> /\ ~lastCheck.made /\ startRet \notin {"", "nil"}
    /\ (lastCheck.started /\ spc # "running" /\ lastRunErr = "workflow failed") =>
          /\ nextRun = getNext8PMBeijing(computedAt)
          /\ computedAt >= lastCheck.now
          /\ nextRun = lastCheck.target + DaySeconds
          /\ ~cancelled => spc \in {"sleeping", "select", "check"}

C14_Witness ==
    /\ lastCheck.started
    /\ lastRunErr = "workflow failed"
    /\ spc = "select"
    /\ ~cancelled
    /\ clock > computedAt
    /\ nextRun = Date(1, TargetHour)

-----------------------------------------------------------------------------
(* Properties of the tool calls (SpecDispatch).                             *)

\* A tools/call that went through a tool handler into the browser or the
\* platform automation.
ToolCallRan == IsToolsCall /\ Len(calls) = 3

\* C15: a tools/call whose downstream execution fails is answered with a
\* JSON-RPC result (no error object) holding a ToolResult with isError=true
\* and a text in content[0]; one whose downstream execution succeeds is
\* answered with a ToolResult with isError=false and the outcome summary in
\* content[0].text.
C15_ToolOutcomeOnToolChannel ==
    ToolCallRan =>
        /\ resp.status = StatusOK
        /\ resp.body.kind = "result"
        /\ resp.body.result.isError = (downstream = "fail")
        /\ Len(resp.body.result.content) = 1
        /\ resp.body.result.content[1].type = "text"
        /\ resp.body.result.content[1].text # ""

C15_Witness ==
    /\ ToolCallRan
    /\ server = "unified"
    /\ calls = <<"handleToolsCall", "check_login_status", "CheckLoginStatus">>
    /\ Req.params.arguments.m = <<>>
    /\ downstream = "fail"
    /\ resp.body.kind = "result"
    /\ resp.body.result.isError

-----------------------------------------------------------------------------
(* Properties of the start-up (SpecBoot).                                   *)

\* A key after merging config.json, the environment and the defaults: the
\* environment wins, no default exists, an unreadable file gives nothing.
MergedKey(k) ==
    IF boot.env[k] # "" THEN boot.env[k]
    ELSE IF boot.file.kind = "object" THEN boot.file[k]
    ELSE ""

KeyMissing == MergedKey("weather") = "" \/ MergedKey("deepseek") = ""

MainDecided == bpc.at \notin {"start", "loaded"}

-----------------------------------------------------------------------------
(* Properties of Orchestrator.Run (SpecWorkflow).                           *)

ConnectCalls == <<"coverMCPClient.TestConnection", "xhsClient.TestConnection">>

GatherCalls == [k \in DOMAIN Fetchers |-> FetcherCall(Fetchers[k])]

\* The calls of a run that goes through every step, in the order of the code.
FullRun ==
    ConnectCalls \o GatherCalls
        \o <<"llmSvc.GenerateContent", "coverMCPClient.GenerateXiaohongshuCover",
             "xhsClient.ValidatePostRequest", "xhsClient.PostWithRetry">>

Called(c) == \E k \in DOMAIN wfCalls : wfCalls[k] = c

Returned == wpc = "done"

ReturnedError == Returned /\ runRet \notin {"", "nil"}

\* The connectivity check of a server fails: no connection, a non-200 status,
\* no JSON-RPC response or a JSON-RPC error.
CoverCheckFails == wfWorld.health \in {"no_connection", "status_500"}

XhsCheckFails ==
    wfWorld.xhs \in {"no_connection", "status_500", "bad_json", "rpc_error"}

\* C17: Run checks the connectivity of both MCP servers before anything
\* else; when the check of either fails, Run returns an error and no fetcher,
\* LLM, cover or publish call is made in that run.
C17_ConnectivityFirstAndFatal ==
    /\ \A k \in DOMAIN wfCalls :
          wfCalls[k] \notin {ConnectCalls[1], ConnectCalls[2]} =>
              k > 2 /\ SubSeq(wfCalls, 1, 2) = ConnectCalls
    /\ (CoverCheckFails \/ XhsCheckFails) =>
          /\ ReturnedError
          /\ wfCalls \in {<<ConnectCalls[1]>>, ConnectCalls}
          /\ wfWorld.fetched = <<>>
          /\ ~wfLlmReq.built
          /\ wfWorld.cover = ""
          /\ wfWorld.publishAttempts = 0

C17_Witness ==
    /\ ~CoverCheckFails
    /\ XhsCheckFails
    /\ ReturnedError
    /\ wfCalls = ConnectCalls

\* C18: whatever subset of the fetchers fails, the five fetchers are called
\* once each in the order weather, lunar, traffic, visitor, weibo, the result
\* field of a failed fetcher stays empty and that of a successful one is
\* filled, and the run goes on to the LLM generation step.
C18_GatherToleratesFailures ==
    LET n == Len(wfWorld.fetched)
    IN  /\ \A k \in 1..n :
              /\ wfCalls[2 + k] = GatherCalls[k]
              /\ (wfResult[Fetchers[k]] = "") <=> (wfWorld.fetched[k] = "fail")
        /\ \A k \in DOMAIN Fetchers :
              Cardinality({j \in DOMAIN wfCalls : wfCalls[j] = GatherCalls[k]})
                  = IF k <= n THEN 1 ELSE 0
        /\ (n >= 1 /\ n < Len(Fetchers)) => (wpc = Fetchers[n + 1] /\ runRet = "")
        /\ n = Len(Fetchers) => (wpc = "llm" \/ wfCalls[8] = "llmSvc.GenerateContent")

C18_Witness ==
    /\ wfWorld.fetched = <<"fail", "fail", "ok", "ok", "fail">>
    /\ wfResult.weather = "" /\ wfResult.weibo = "" /\ wfResult.visitor # ""
    /\ Called("llmSvc.GenerateContent")
    /\ wfWorld.llm.err = ""

\* The cover step was made and left no cover image.
CoverFailed ==
    Called("coverMCPClient.GenerateXiaohongshuCover") /\ ~wfWorld.coverWritten

\* C19: Run makes its steps in the order connectivity check, gather, LLM,
\* cover, publish; a failed LLM generation means no cover and no publish
\* call, a failed cover generation means no publish call, and Run returns nil
\* only if the publish step succeeded.
C19_OrderAndFatalFailures ==
    /\ wfCalls = SubSeq(FullRun, 1, Len(wfCalls))
    /\ (Called("llmSvc.GenerateContent") /\ wfWorld.llm.err # "") =>
          /\ ~Called("coverMCPClient.GenerateXiaohongshuCover")
          /\ ~Called("xhsClient.PostWithRetry")
    /\ CoverFailed => ~Called("xhsClient.PostWithRetry")
    /\ runRet = "nil" => wfWorld.published

\* C20: a cover generation that the tool reports as failed (ToolResult with
\* isError true, no file written) is fatal: GenerateXiaohongshuCover returns
\* an error and the orchestrator does not go on to publish.
C20_CoverToolErrorIsFatal ==
    wfWorld.cover = "tool_error" =>
        /\ ReturnedError
        /\ wfResult.image = ""
        /\ ~Called("xhsClient.ValidatePostRequest")
        /\ ~Called("xhsClient.PostWithRetry")

\* C21: a publish attempt counts as successful only if the publish_content
\* tool succeeded: when the tool answers with isError true, the attempt is an
\* error, it is retried, and after the last retry Run returns an error and
\* reports no successful post.
C21_PublishToolErrorIsFailure ==
    (Called("xhsClient.PostWithRetry") /\ ~wfWorld.published) =>
        /\ ReturnedError
        /\ ~wfResult.success
        /\ wfWorld.publishAttempts = OrchestratorRetries

\* The post of the run is one that ValidatePostRequest rejects.
PostRejected == ValidatePostRequest(WorkflowPost(wfWorld.llm)) # "nil"

\* C22: validation precedes publishing: PostWithRetry is called only after
\* ValidatePostRequest and only with a post it accepts; a rejected post makes
\* Run return an error after zero publish attempts.
C22_ValidationPrecedesPublish ==
    /\ \A k \in DOMAIN wfCalls :
          wfCalls[k] = "xhsClient.PostWithRetry" =>
              /\ k > 1
              /\ wfCalls[k - 1] = "xhsClient.ValidatePostRequest"
              /\ ~PostRejected
    /\ wfWorld.publishAttempts > 0 => ~PostRejected
    /\ (Called("xhsClient.ValidatePostRequest") /\ PostRejected) =>
          /\ ReturnedError
          /\ wfWorld.publishAttempts = 0
          /\ ~wfWorld.published

C22_Witness ==
    /\ Called("xhsClient.ValidatePostRequest")
    /\ PostRejected
    /\ ReturnedError
    /\ wfWorld.publishAttempts = 0

-----------------------------------------------------------------------------
(* Properties of Stop and of the runs of a target (SpecScheduler).          *)

\* The runs that were started when Stop had already been called.
RunsAfterStop == {k \in DOMAIN runLog : runLog[k].stopped}

\* C23: once Stop() has been called the loop exits at its next check, Start
\* returning nil, and no workflow run is started after the call to Stop(),
\* wherever Stop() falls between the steps of the loop.
C23_NoRunAfterStop ==
    /\ RunsAfterStop = {}
    /\ lastCheck.afterStop = 0
    /\ (spc = "returned" /\ cancelled) => startRet = "nil"

\* C23 as the code has it: once Stop() has been called, the select at the head
\* of the loop makes Start return nil, and no run is started except by an
\* iteration that had passed its select before Stop() was called; so at most
\* one time check is made and at most one run is started after Stop().
C23_StopExitsAtNextSelect ==
    /\ [](/\ Cardinality(RunsAfterStop) <= 1
          /\ lastCheck.afterStop <= 1
          /\ (spc = "returned" /\ cancelled) => startRet = "nil")
    /\ [][cancelled =>
            /\ spc = "select" => (spc' = "returned" /\ startRet' = "nil")
            /\ spc # "check" => (runLog' = runLog /\ lastCheck' = lastCheck)]_vars

C23_Witness ==
    /\ cancelled
    /\ spc = "returned"
    /\ startRet = "nil"
    /\ RunsAfterStop # {}

\* C24: at most one run is started per daily target: once a run started in
\* the window of target T has returned, with or without an error and however
\* short it was, nextRun is the 20:00 of a later day, and no two runs of the
\* log have the same target.
C24_OneRunPerTarget ==
    /\ \A j, k \in DOMAIN runLog :
          j < k => runLog[j].target < runLog[k].target
    /\ \A k \in DOMAIN runLog : InWindow(runLog[k].at, runLog[k].target)
    /\ (lastCheck.started /\ spc # "running") =>
          /\ nextRun > lastCheck.target
          /\ nextRun = Date(DayOf(nextRun), TargetHour)
          /\ DayOf(nextRun) > DayOf(lastCheck.target)
          /\ nextRun = runLog[Len(runLog)].target + DaySeconds

C24_Witness ==
    /\ Len(runLog) = 2
    /\ runLog[1].target = Date(0, TargetHour)
    /\ runLog[2].target = Date(1, TargetHour)
    /\ spc = "sleeping"
    /\ computedAt = runLog[2].at
    /\ nextRun = Date(2, TargetHour)

-----------------------------------------------------------------------------
(* Properties of the runs in progress (SpecServe).                          *)

\* The requests that have an Orchestrator.Run in progress.
ApiRuns == {r \in Requests : InRun(apiReq[r])}

\* The orchestrator runs in progress in the process.
RunsInProgress == Cardinality(ApiRuns) + (IF spc = "running" THEN 1 ELSE 0)

\* C25: in API mode the runs are not mutually excluded: a request for
\* POST /api/generate-and-publish that is accepted enters Orchestrator.Run at
\* once, whether or not another request has a run in progress, so that two
\* runs overlap and both reach the publish step (C25_Witness).
C25_RunsNotExcluded ==
    [][\A r \in Requests :
          (apiMode = "api" /\ apiOrch /\ apiReq[r].pc = "none"
                /\ apiReq'[r].pc # "none")
              => apiReq'[r].pc = RunSteps[1]]_vars

C25_Witness ==
    /\ apiMode = "api"
    /\ Cardinality(ApiRuns) >= 2
    /\ \A r \in ApiRuns : apiReq[r].pc = "publish"

\* C29: in scheduler mode at most one Orchestrator.Run is in progress at any
\* time: the HTTP server is not started, so no request enters a run, and
\* while the run of the loop is in progress the loop makes no check and
\* starts no run.
C29_OneRunInSchedulerMode ==
    /\ [](apiMode = "scheduler" =>
            /\ RunsInProgress <= 1
            /\ \A r \in Requests : apiReq[r].pc \in {"none", "refused"})
    /\ [][(apiMode = "scheduler" /\ spc = "running")
            => (lastCheck' = lastCheck /\ runLog' = runLog)]_vars

C29_Witness ==
    /\ apiMode = "scheduler"
    /\ spc = "running"
    /\ RunsInProgress = 1
    /\ \E r \in Requests : apiReq[r].pc = "refused"

-----------------------------------------------------------------------------
(* Properties of concurrent cover generation (SpecCover).                   *)

\* C30: cover generation calls do not interfere through their output file:
\* in every interleaving of the calls, a call that reports success has at its
\* reported output path, when it reports and afterwards, the screenshot that
\* this same call took.
C30_CoverCallsDoNotInterfere ==
    \A c \in CoverCalls :
        coverCall[c].result = "success" =>
            /\ coverCall[c].held = c
            /\ files[coverCall[c].path] = c

\* Calls that write to paths of their own do not interfere.
DistinctPathsDoNotInterfere ==
    \A c \in CoverCalls :
        (/\ coverCall[c].result = "success"
         /\ \A d \in CoverCalls \ {c} : coverCall[d].path # coverCall[c].path)
            => (coverCall[c].held = c /\ files[coverCall[c].path] = c)

-----------------------------------------------------------------------------
(* Properties of the LLM request (SpecWorkflow).                            *)

\* The datum of fetcher k is in the LLM request exactly when the fetcher
\* succeeded.
PassedIffFetched(k) ==
    /\ wfWorld.fetched[k] = "ok" =>
          (wfLlmReq[Fetchers[k]] # "" /\ wfLlmReq[Fetchers[k]] = Fetchers[k] \o " info")
    /\ wfWorld.fetched[k] = "fail" => wfLlmReq[Fetchers[k]] = ""

\* C26: the LLM request is built from whatever gathered data is present: each
\* of weather, lunar, traffic, visitor and weibo summary is in the request
\* when its fetcher succeeded and empty in it when its fetcher failed.
C26_RequestCarriesAllGathered ==
    wfLlmReq.built => \A k \in DOMAIN Fetchers : PassedIffFetched(k)

\* C26 as the code has it: the same for weather, lunar, visitor and weibo
\* summary; the traffic datum is never in the request, fetched or not.
C26_RequestCarriesGatheredButTraffic ==
    wfLlmReq.built =>
        /\ \A k \in DOMAIN Fetchers : Fetchers[k] # "traffic" => PassedIffFetched(k)
        /\ wfLlmReq.traffic = ""
        /\ wfResult.traffic # ""

C26_Witness ==
    /\ wfLlmReq.built
    /\ wfWorld.fetched = <<"ok", "fail", "ok", "ok", "fail">>
    /\ wfLlmReq.weather # ""
    /\ wfLlmReq.visitor # ""
    /\ wfLlmReq.lunar = ""
    /\ wfLlmReq.weibo = ""

-----------------------------------------------------------------------------
(* Properties of publish_content and of unknown tools (SpecDispatch).       *)

PublishContentCalled ==
    /\ IsToolsCall
    /\ Len(calls) >= 2
    /\ calls[2] = "publish_content"

\* One of title, content and images is absent from the arguments, or images
\* is an empty array.
PublishArgumentMissing ==
    \/ \E k \in {"title", "content", "images"} : k \notin DOMAIN CallerArgs
    \/ CallerArgs["images"] = JV("array", "[]")

AnsweredWithError ==
    IF resp.body.kind = "result" THEN resp.body.result.isError
    ELSE resp.body.kind = "error"

\* C27: publish_content requires title, content and images: a tools/call for
\* publish_content in which one of the three is absent, or images is empty, is
\* not forwarded to the platform publish action and is answered with an error.
C27_PublishRequiresAllThree ==
    (PublishContentCalled /\ PublishArgumentMissing) =>
        /\ Len(calls) = 2
        /\ AnsweredWithError

WellFormedCall ==
    /\ IsToolsCall
    /\ Req.params.t = "object"
    /\ Req.params.name.t = "string"
    /\ Req.params.arguments.t = "object"

\* The tool named by the request is none of the five tools of the catalog.
UnregisteredTool ==
    \A n \in DOMAIN ToolNames : Req.params.name.v # ToolNames[n]

\* C28: a tools/call with well-formed params whose tool name is none of the
\* five registered tools is answered with the JSON-RPC error -32601, and no
\* tool handler and no browser or platform action is run for it.
C28_UnknownToolNotFound ==
    (WellFormedCall /\ UnregisteredTool) =>
        /\ ErrorReply(CodeMethodNotFound)
        /\ calls = <<"handleToolsCall">>
        /\ toolArgs = NoArgs

C28_Witness ==
    /\ WellFormedCall
    /\ server = "unified"
    /\ Req.params.name.v = "no_such_tool"
    /\ Req.params.arguments.m # <<>>
    /\ ErrorReply(CodeMethodNotFound)
    /\ calls = <<"handleToolsCall">>

====
